---- MODULE Spec2Model ----
(***************************************************************************)
(* Model of the PollySystem control plane (backend/app/plugins):           *)
(*   - monitoring: alert-rule evaluator, alert store, notifier worker      *)
(*   - docker: container lifecycle, stats tasks, compose orchestration     *)
(* Redis keys are modelled as functions from ids to records; a missing key *)
(* is the value None.  Background coroutines are modelled as processes that *)
(* take one step between two suspension points that matter.                *)
(***************************************************************************)
EXTENDS Integers, Sequences, FiniteSets, TLC

\* A missing Redis key, a Python None.
None == [ none |-> TRUE ]
\* An Optional[datetime] that is None; the clock starts after it.
NoTime == 0

\* ---------------------------------------------------------------- bounds
MaxRules == 2
MaxAlerts == 2
MaxValue == 2
MaxTicks == 3
MaxServices == 3
MaxDeployments == 1
MaxUpdates == 1
MaxContainers == 2
MaxTasks == 3
MaxMachines == 2
MaxMonitorTasks == 2
MaxSamples == 2
MaxProducers == 2
MaxDiscoverCalls == 1
MaxCallers == 2
MaxSessions == 3
MaxClock == 3
TicksPerMinute == 2
MinutesPerHour == 2

\* ------------------------------------------------------- monitoring: data
RuleIds == 1..MaxRules
AlertIds == 1..MaxAlerts
Values == 0..MaxValue

\* AlertSeverity, AlertState, the sink names of the notifier
Severities == {"info", "warning", "error", "critical"}
AlertStates == {"active", "acknowledged", "resolved"}
Sinks == {"email", "slack", "webhook"}
ValidOperators == {"gt", "lt", "eq", "ne", "ge", "le"}

\* What redis.get("metric:<name>:latest") can return to the evaluator: no key,
\* a payload Metric.parse_raw rejects, or a metric with a value.  No code of the
\* service writes this key (record_metric writes "metric:<id>"), so its content
\* is an input of the evaluator step.
NoData == [ kind |-> "nodata" ]
BadData == [ kind |-> "baddata" ]
MetricData == {NoData, BadData} \cup [ kind : {"metric"}, value : Values ]

\* rule.notifications as submitted: no sink, or two of them.
SinkLists == {<<>>, <<"email", "webhook">>}
RECURSIVE MaxLen(_)
MaxLen(S) ==
  IF S = {} THEN 0
  ELSE LET x == CHOOSE y \in S : TRUE
           m == MaxLen(S \ {x})
       IN IF Len(x) > m THEN Len(x) ELSE m
MaxSinkList == MaxLen(SinkLists)

\* The rules an operator can submit (POST /monitoring/alerts/rules).
Rule(id, severity, operator, enabled, notifications) ==
  [ id |-> id, severity |-> severity, operator |-> operator, threshold |-> 1,
    enabled |-> enabled, notifications |-> notifications, labels |-> "team=a" ]
RuleInputs ==
  UNION { { Rule(id, "warning", "gt", TRUE, <<"email", "webhook">>),
            Rule(id, "critical", "gt", TRUE, <<"email", "webhook">>),
            Rule(id, "warning", "matches", TRUE, <<"email", "webhook">>) } : id \in RuleIds }
\* The rules submitted in the runs of the notification pipeline: with sinks,
\* without, disabled, and one that is rejected.
NotifyRuleInputs ==
  UNION { { Rule(id, "warning", "gt", TRUE, <<"email", "webhook">>),
            Rule(id, "warning", "gt", TRUE, <<>>),
            Rule(id, "warning", "gt", FALSE, <<"email", "webhook">>),
            Rule(id, "warning", "matches", TRUE, <<"email", "webhook">>) } : id \in RuleIds }

\* A rule whose condition carries a duration, counted in minutes.
DurationRule(id, duration) ==
  [ id |-> id, severity |-> "warning", operator |-> "gt", threshold |-> 1,
    enabled |-> TRUE, notifications |-> <<"email", "webhook">>, labels |-> "team=a",
    duration |-> duration ]
\* The rules submitted in the runs with recorded metrics.
MetricRuleInputs == { DurationRule(id, duration) : id \in RuleIds, duration \in {0, 1} }
\* The values recorded there, and what the evaluator reads.
RecordedValues == {0, MaxValue}
LatestData == { NoData } \cup [ kind : {"metric"}, value : RecordedValues ]

NotifIds == 1..(MaxAlerts * MaxSinkList)

VARIABLES
  \* --- monitoring (Redis)
  alert_rules,      \* "alert_rule:<id>"  : rule id -> rule | None
  alerts,           \* "alert:<id>"       : alert id -> alert | None
  notif_queue,      \* list "alert_notifications"
  retry_queue,      \* list "alert_notifications_retry"
  notifications,    \* "notification:<id>" : sequence index -> stored notification
  \* --- monitoring (evaluator coroutine _check_alert_rules)
  ev_pc,            \* "sleep" | "rules" | "get" | "set" | "cancelled"
  ev_todo,          \* rules listed at the start of the tick, not yet evaluated
  ev_upd,           \* the update_alert call in progress
  now,              \* datetime.utcnow(), counted in evaluator ticks
  notifier,         \* the _process_notifications task: its position and the
                    \* notification it took off the queue
  \* --- monitoring (history)
  notif_made,       \* every AlertNotification constructed, by id
  attempts,         \* dispatch attempts per notification id
  owed,             \* <<alert id, sink>> pairs of alerts the evaluator created
  dispatched,       \* <<alert id, sink>> pairs handed to a sink
  \* --- docker (Redis, the daemon of the machine, DockerService fields)
  containers,       \* "container:<id>" : container id -> Container record
  dockerd,          \* the daemon's containers: docker id -> [name, running]
  networks,         \* the daemon's networks compose_<deployment id>
  deployments,      \* "compose_deployment:<id>" : deployment id -> record
  stats_tasks,      \* self._stats_tasks : task key -> task
  stats_live,       \* the _collect_container_stats tasks that are running
  deploy,           \* the deploy_compose call in progress, or Idle
  \* --- docker (history)
  made,             \* counters: Container, ComposeDeployment objects, tasks created;
                    \* whether a create was refused for its name
  creation_log,     \* containers created by deploy_compose, in creation order, each
                    \* with the containers that had been RUNNING by then
  reached_running,  \* containers that have been RUNNING
  teardown_log,     \* per deployment: the steps of the latest remove call
  outcome,          \* per deployment: how deploy_compose ended
  \* --- machines (Redis, MachineService fields, the monitor tasks)
  machines,         \* "machine:<id>" : machine id -> Machine record | None
  ssh_clients,      \* self._ssh_clients : machine id -> the session cached for it
  monitoring_intervals,  \* self._monitoring_intervals : machine id -> seconds
  monitor,          \* the monitor_machines tasks: task id -> position and locals
  deleting,         \* delete_machine calls between their await and their return
  ssh_calls,        \* get_ssh_client calls awaiting asyncssh.connect: caller -> Machine
  \* --- machines (history)
  machines_made,    \* Machine objects constructed by create_machine
  last_probe,       \* the latest connection attempt of get_ssh_client
  ssh_open,         \* per machine id: sessions opened and not closed since
  \* --- metrics (Redis)
  metrics,          \* "metric:<id>" : the Metric objects record_metric stored
  timeseries,       \* "timeseries:<resolution>:<name>:<start>" : the lists of points
  recording,        \* record_metric calls between their redis.set and their rpush
  clock,            \* datetime.utcnow() of the metric producers, in ticks
  ts_query,         \* the latest get_timeseries call and what it returned
  \* --- plugin manager
  pm                \* the PluginManager's fields, the discover_plugins call in
                    \* progress with its locals, the cleanup tasks, and how the
                    \* latest discover_plugins call ended

mon_vars == << alert_rules, alerts, notif_queue, retry_queue, notifications,
               ev_pc, ev_todo, ev_upd, now, notif_made, attempts, owed, dispatched >>

docker_vars == << containers, dockerd, networks, deployments, stats_tasks, stats_live,
                  deploy, made, creation_log, reached_running, teardown_log, outcome >>

machine_vars == << machines, ssh_clients, monitoring_intervals, monitor, deleting,
                   ssh_calls, machines_made, last_probe, ssh_open >>

metric_vars == << metrics, timeseries, recording, clock, ts_query >>

plugin_vars == << pm >>

\* What the handlers of one plugin leave alone.
outside_mon == << docker_vars, machine_vars, metric_vars, plugin_vars, notifier >>
outside_docker == << mon_vars, machine_vars, metric_vars, plugin_vars, notifier >>
outside_machines == << mon_vars, docker_vars, metric_vars, plugin_vars, notifier >>
outside_metrics == << mon_vars, docker_vars, machine_vars, plugin_vars, notifier >>
outside_plugins == << mon_vars, docker_vars, machine_vars, metric_vars, notifier >>

vars == << mon_vars, docker_vars, machine_vars, metric_vars, plugin_vars, notifier >>

\* ------------------------------------------------------ monitoring: helpers

\* The operator chain of _check_alert_rules; an operator outside the six leaves
\* threshold_exceeded at its initial False.
ThresholdExceeded(operator, value, threshold) ==
  IF operator = "gt" THEN value > threshold
  ELSE IF operator = "lt" THEN value < threshold
  ELSE IF operator = "eq" THEN value = threshold
  ELSE IF operator = "ne" THEN value # threshold
  ELSE IF operator = "ge" THEN value >= threshold
  ELSE IF operator = "le" THEN value <= threshold
  ELSE FALSE

StoredAlertIds == { a \in AlertIds : alerts[a] # None }

\* list_alerts(severity=..., state=...): the stored alerts passing both filters.
ListAlerts(severity, state) ==
  { a \in StoredAlertIds : alerts[a].severity = severity /\ alerts[a].state = state }

\* The alerts among which next(a for a in existing_alerts if a.rule_id == rule.id)
\* picks the first in scan order.
ExistingAlerts(rule) ==
  { a \in ListAlerts(rule.severity, "active") : alerts[a].rule_id = rule.id }

\* Alert(rule_id=..., severity=..., value=..., threshold=..., labels=rule.labels):
\* the state of a fresh alert is the model's default.
NewAlert(rule, value) ==
  [ rule_id |-> rule.id, severity |-> rule.severity, state |-> "active",
    value |-> value, threshold |-> rule.threshold, labels |-> rule.labels,
    first_detected_at |-> now, last_detected_at |-> now,
    acknowledged_at |-> NoTime, resolved_at |-> NoTime ]

\* AlertNotification(alert_id=..., type=...), numbered in construction order.
NewNotification(id, alert_id, type) ==
  [ id |-> id, alert_id |-> alert_id, type |-> type, status |-> "pending",
    sent_at |-> NoTime ]

\* The notification after its sink returned: status = "sent", sent_at = utcnow().
SentNotification(n) == [ n EXCEPT !.status = "sent", !.sent_at = now ]

\* A variant that records a failed dispatch as sent.
FailedNotification_MarkedSent(n) == [ n EXCEPT !.status = "sent", !.sent_at = now ]

\* The notification after its sink raised: status = "failed".
FailedNotification(n) == [ n EXCEPT !.status = "failed" ]

\* A variant that stops after the first entry of rule.notifications.
NotificationsFor_FirstSinkOnly(rule, alert_id, first_id) ==
  [ i \in 1..(IF Len(rule.notifications) > 0 THEN 1 ELSE 0) |->
      NewNotification(first_id + i - 1, alert_id, rule.notifications[i]) ]

\* The notifications the evaluator pushes for a new alert: one per entry of
\* rule.notifications, in list order.
NotificationsFor(rule, alert_id, first_id) ==
  [ i \in 1..Len(rule.notifications) |->
      NewNotification(first_id + i - 1, alert_id, rule.notifications[i]) ]

\* ------------------------------------------------------ monitoring: actions

MonInit ==
  /\ alert_rules = [ r \in RuleIds |-> None ]
  /\ alerts = [ a \in AlertIds |-> None ]
  /\ notif_queue = << >>
  /\ retry_queue = << >>
  /\ notifications = [ n \in NotifIds |-> None ]
  /\ ev_pc = "sleep"
  /\ ev_todo = {}
  /\ ev_upd = None
  /\ now = 1
  /\ notif_made = << >>
  /\ attempts = [ n \in NotifIds |-> 0 ]
  /\ owed = {}
  /\ dispatched = {}
  /\ notifier = [ pc |-> "idle", cur |-> None ]

\* create_alert_rule: an operator outside the six raises MonitoringError and
\* stores nothing; otherwise the rule is written under its id, replacing any
\* rule already stored there.
CreateAlertRule(rule) ==
  /\ rule.operator \in ValidOperators
  /\ alert_rules' = [ alert_rules EXCEPT ![rule.id] = rule ]
  /\ UNCHANGED << alerts, notif_queue, retry_queue, notifications,
                  ev_pc, ev_todo, ev_upd, now, notif_made, attempts, owed, dispatched >>
  /\ UNCHANGED outside_mon

\* update_alert(alert_id, **updates), as the two routes call it: the stored alert
\* is read, the state is set, the matching timestamp is stamped, and the alert
\* is written back.  A missing alert returns None (404) and writes nothing.
UpdateAlertState(alert, state) ==
  LET a1 == [ alert EXCEPT !.state = state ]
  IN IF state = "resolved" THEN [ a1 EXCEPT !.resolved_at = now ]
     ELSE IF state = "acknowledged" THEN [ a1 EXCEPT !.acknowledged_at = now ]
     ELSE a1

AcknowledgeAlert(a) ==
  /\ alerts[a] # None
  /\ alerts' = [ alerts EXCEPT ![a] = UpdateAlertState(alerts[a], "acknowledged") ]
  /\ UNCHANGED << alert_rules, notif_queue, retry_queue, notifications,
                  ev_pc, ev_todo, ev_upd, now, notif_made, attempts, owed, dispatched >>
  /\ UNCHANGED outside_mon

ResolveAlert(a) ==
  /\ alerts[a] # None
  /\ alerts' = [ alerts EXCEPT ![a] = UpdateAlertState(alerts[a], "resolved") ]
  /\ UNCHANGED << alert_rules, notif_queue, retry_queue, notifications,
                  ev_pc, ev_todo, ev_upd, now, notif_made, attempts, owed, dispatched >>
  /\ UNCHANGED outside_mon

\* --- the evaluator coroutine, _check_alert_rules

\* rules = await self.list_alert_rules(): the tick starts with the rules stored now.
EvalStart ==
  /\ ev_pc = "sleep"
  /\ now < MaxTicks
  /\ now' = now + 1
  /\ ev_todo' = { alert_rules[r] : r \in { q \in RuleIds : alert_rules[q] # None } }
  /\ ev_pc' = "rules"
  /\ UNCHANGED << alert_rules, alerts, notif_queue, retry_queue, notifications,
                  ev_upd, notif_made, attempts, owed, dispatched >>
  /\ UNCHANGED outside_mon

\* The new alert and its notifications (the else branch at "Create new alert").
EvalCreate(rule, value) ==
  LET id == Cardinality(StoredAlertIds) + 1
      pushed == NotificationsFor(rule, id, Len(notif_made) + 1)
  IN /\ alerts' = [ alerts EXCEPT ![id] = NewAlert(rule, value) ]
     /\ notif_queue' = notif_queue \o pushed
     /\ notif_made' = notif_made \o pushed
     /\ owed' = owed \cup { <<id, rule.notifications[i]>> : i \in 1..Len(rule.notifications) }
     /\ ev_todo' = ev_todo \ {rule}
     /\ UNCHANGED << ev_pc, ev_upd >>

\* One pass of the for-loop body for one listed rule; md is what Redis returns
\* for "metric:<metric_name>:latest".
EvalRule(rule, md) ==
  /\ ev_pc = "rules"
  /\ rule \in ev_todo
  /\ IF ~rule.enabled \/ md = NoData
        THEN \* continue
             /\ ev_todo' = ev_todo \ {rule}
             /\ UNCHANGED << alerts, notif_queue, notif_made, owed, ev_pc, ev_upd >>
     ELSE IF md = BadData
        THEN \* Metric.parse_raw raises: the except around the whole loop ends the tick
             /\ ev_todo' = {}
             /\ ev_pc' = "sleep"
             /\ UNCHANGED << alerts, notif_queue, notif_made, owed, ev_upd >>
     ELSE IF ~ThresholdExceeded(rule.operator, md.value, rule.threshold)
        THEN /\ ev_todo' = ev_todo \ {rule}
             /\ UNCHANGED << alerts, notif_queue, notif_made, owed, ev_pc, ev_upd >>
     ELSE IF ExistingAlerts(rule) # {}
        THEN \* update_alert(existing_alert.id, last_detected_at=..., value=...)
             /\ \E a \in ExistingAlerts(rule) :
                  ev_upd' = [ id |-> a, value |-> md.value, at |-> now, copy |-> None ]
             /\ ev_pc' = "get"
             /\ ev_todo' = ev_todo \ {rule}
             /\ UNCHANGED << alerts, notif_queue, notif_made, owed >>
     ELSE /\ Cardinality(StoredAlertIds) < MaxAlerts
          /\ EvalCreate(rule, md.value)
  /\ UNCHANGED << alert_rules, retry_queue, notifications, now, attempts, dispatched >>
  /\ UNCHANGED outside_mon

\* update_alert, first half: alert = await self.get_alert(alert_id), then the
\* setattr loop on the copy that was read.
EvalUpdateGet ==
  /\ ev_pc = "get"
  /\ ev_upd' = [ ev_upd EXCEPT !.copy =
                   [ alerts[ev_upd.id] EXCEPT !.last_detected_at = ev_upd.at,
                                              !.value = ev_upd.value ] ]
  /\ ev_pc' = "set"
  /\ UNCHANGED << alert_rules, alerts, notif_queue, retry_queue, notifications,
                  ev_todo, now, notif_made, attempts, owed, dispatched >>
  /\ UNCHANGED outside_mon

\* update_alert, second half: the copy is written back under the alert's key.
EvalUpdateSet ==
  /\ ev_pc = "set"
  /\ alerts' = [ alerts EXCEPT ![ev_upd.id] = ev_upd.copy ]
  /\ ev_upd' = None
  /\ ev_pc' = "rules"
  /\ UNCHANGED << alert_rules, notif_queue, retry_queue, notifications,
                  ev_todo, now, notif_made, attempts, owed, dispatched >>
  /\ UNCHANGED outside_mon

\* The for-loop is exhausted: await asyncio.sleep(60).
EvalSleep ==
  /\ ev_pc = "rules"
  /\ ev_todo = {}
  /\ ev_pc' = "sleep"
  /\ UNCHANGED << alert_rules, alerts, notif_queue, retry_queue, notifications,
                  ev_todo, ev_upd, now, notif_made, attempts, owed, dispatched >>
  /\ UNCHANGED outside_mon

\* --- the notifier coroutine, _process_notifications

\* One pass of the worker loop with a notification on the queue: lpop, get the
\* alert, call the sink's _send_*_notification, record the outcome.  The sinks
\* are integration points; ok is whether the call returns or raises.
ProcessNotification(ok) ==
  /\ notif_queue # << >>
  /\ LET n == Head(notif_queue)
     IN /\ notif_queue' = Tail(notif_queue)
        /\ IF alerts[n.alert_id] = None
             THEN \* if not alert: continue
                  UNCHANGED << retry_queue, notifications, attempts, dispatched >>
             ELSE /\ attempts' = [ attempts EXCEPT ![n.id] = @ + 1 ]
                  /\ dispatched' = IF n.type \in Sinks
                                     THEN dispatched \cup { <<n.alert_id, n.type>> }
                                     ELSE dispatched
                  /\ IF ok
                       THEN /\ notifications' =
                                 [ notifications EXCEPT ![n.id] =
                                     SentNotification(n) ]
                            /\ UNCHANGED retry_queue
                       ELSE /\ retry_queue' =
                                 Append(retry_queue, FailedNotification(n))
                            /\ notifications' =
                                 [ notifications EXCEPT ![n.id] =
                                     FailedNotification(n) ]
  /\ UNCHANGED << alert_rules, alerts, ev_pc, ev_todo, ev_upd, now,
                  notif_made, owed >>
  /\ UNCHANGED outside_mon

\* --- the notifier coroutine step by step, and the service's stop()

\* notification_data = await self.redis.lpop("alert_notifications"), with a
\* notification on the queue: it is off the queue and in the worker's hands.
NotifierPop ==
  /\ notifier.pc = "idle"
  /\ notif_queue # << >>
  /\ notifier' = [ pc |-> "busy", cur |-> Head(notif_queue) ]
  /\ notif_queue' = Tail(notif_queue)
  /\ UNCHANGED << alert_rules, alerts, retry_queue, notifications, ev_pc, ev_todo,
                  ev_upd, now, notif_made, attempts, owed, dispatched >>
  /\ UNCHANGED << docker_vars, machine_vars, metric_vars, plugin_vars >>

\* The rest of the pass: the alert is read, the sink called (ok: it returns),
\* the outcome stored, a failure pushed on the retry queue.
NotifierFinish(ok) ==
  /\ notifier.pc = "busy"
  /\ LET n == notifier.cur
     IN IF alerts[n.alert_id] = None
          THEN \* if not alert: continue
               UNCHANGED << retry_queue, notifications, attempts, dispatched >>
          ELSE /\ attempts' = [ attempts EXCEPT ![n.id] = @ + 1 ]
               /\ dispatched' = IF n.type \in Sinks
                                  THEN dispatched \cup { <<n.alert_id, n.type>> }
                                  ELSE dispatched
               /\ notifications' =
                    [ notifications EXCEPT ![n.id] =
                        IF ok THEN SentNotification(n) ELSE FailedNotification(n) ]
               /\ retry_queue' = IF ok THEN retry_queue
                                       ELSE Append(retry_queue, FailedNotification(n))
  /\ notifier' = [ pc |-> "idle", cur |-> None ]
  /\ UNCHANGED << alert_rules, alerts, notif_queue, ev_pc, ev_todo, ev_upd, now,
                  notif_made, owed >>
  /\ UNCHANGED << docker_vars, machine_vars, metric_vars, plugin_vars >>

\* MonitoringService.stop(), the plugin's cleanup task: the evaluator and the
\* notifier are cancelled where they wait; CancelledError passes their
\* "except Exception" clauses and the tasks end with their locals.
StopService ==
  /\ notifier.pc # "cancelled"
  /\ notifier' = [ pc |-> "cancelled", cur |-> None ]
  /\ ev_pc' = "cancelled"
  /\ UNCHANGED << alert_rules, alerts, notif_queue, retry_queue, notifications, ev_todo,
                  ev_upd, now, notif_made, attempts, owed, dispatched >>
  /\ UNCHANGED << docker_vars, machine_vars, metric_vars, plugin_vars >>

\* ------------------------------------------------------------ docker: data

\* Service names.  A ComposeConfig is its services in dict order; the i-th
\* service is given the name i, and its depends_on is any set of names (its own
\* name and names of no service included).
Services == 1..MaxServices
ComposeConfigs ==
  UNION { [ 1..k -> SUBSET Services ] : k \in 0..MaxServices }

\* service_config.metadata['depends_on'] of the service named s (empty when the
\* key is absent).  The ContainerConfig field that carries it is declared in no
\* source file at hand; it is read as the spec's optional depends_on.
DependsOn(config, s) == config[s]

\* Names given to containers created through POST /docker/containers.
ContainerNames == { << "web" >>, << "db" >> }

DeploymentIds == 1..(MaxDeployments + MaxUpdates)

\* No deploy_compose call in progress.
Idle == [ pc |-> "idle" ]

\* A dict without entries.
EmptyMap == [ x \in {} |-> TRUE ]

\* The part of the state a remove touches, as one value.
DockerState ==
  [ containers |-> containers, dockerd |-> dockerd, networks |-> networks,
    deployments |-> deployments, stats_tasks |-> stats_tasks, stats_live |-> stats_live ]

Without(f, x) == [ y \in (DOMAIN f) \ {x} |-> f[y] ]

Reverse(seq) == [ i \in 1..Len(seq) |-> seq[Len(seq) + 1 - i] ]

\* task_key = f"{machine.id}_{container.id}", on the one machine of the model
TaskKey(cid) == cid

\* ---------------------------------------------------- docker: containers

\* A variant that records the new task in _stats_tasks, cancelling one already
\* recorded under the key.
SpawnStatsTask_Registered(st, cid, tid) ==
  [ st EXCEPT
      !.stats_live = { t \in @ : TaskKey(cid) \notin DOMAIN st.stats_tasks
                                 \/ t.tid # st.stats_tasks[TaskKey(cid)] }
                     \cup { [ tid |-> tid, cid |-> cid, snapshot |-> st.containers[cid] ] },
      !.stats_tasks = (TaskKey(cid) :> tid) @@ @ ]

\* asyncio.create_task(self._collect_container_stats(machine, container)): the
\* task holds the Container object of its caller; the handle is not kept.
SpawnStatsTask(st, cid, tid) ==
  [ st EXCEPT
      !.stats_live = @ \cup { [ tid |-> tid, cid |-> cid, snapshot |-> st.containers[cid] ] } ]

\* create_container on success: containers.run(...) has started the container,
\* the Container record is stored in state RUNNING and the stats task spawned.
CreateContainerOk(st, cid, name, tid) ==
  LET st1 == [ st EXCEPT
                 !.dockerd = (cid :> [ name |-> name, running |-> TRUE ]) @@ @,
                 !.containers = (cid :> [ name |-> name, state |-> "running",
                                          stats |-> FALSE ]) @@ @ ]
  IN SpawnStatsTask(st1, cid, tid)

\* Whether create_container raises: the pull or the run fails (ok = FALSE), or
\* the daemon refuses a name already in use.
CreateContainerFails_NameBlind(st, name, ok) == ~ok

CreateContainerFails(st, name, ok) ==
  ~ok \/ \E d \in DOMAIN st.dockerd : st.dockerd[d].name = name

\* Whether stop/start/remove raise before touching anything: no record, no
\* container at the daemon, or the daemon call fails (ok = FALSE).
ContainerOpFails(st, cid, ok) ==
  \/ cid \notin DOMAIN st.containers
  \/ cid \notin DOMAIN st.dockerd
  \/ ~ok

\* stop_container on success: the container is stopped and the record stored
\* with state STOPPED.  The stats task is left as it is.
StopContainerOk(st, cid) ==
  [ st EXCEPT !.dockerd[cid].running = FALSE,
              !.containers[cid].state = "stopped" ]

\* start_container on success: the container is started, the record stored
\* with state RUNNING and a stats task spawned.
StartContainerOk(st, cid, tid) ==
  LET st1 == [ st EXCEPT !.dockerd[cid].running = TRUE,
                         !.containers[cid].state = "running" ]
  IN SpawnStatsTask(st1, cid, tid)

\* Whether remove_container raises: as above, or the container is running and
\* force is not set.
RemoveContainerFails(st, cid, force, ok) ==
  \/ ContainerOpFails(st, cid, ok)
  \/ (st.dockerd[cid].running /\ ~force)

\* A variant of the end of remove_container that cancels every task of the
\* container.
CancelStatsTask_All(st, cid) ==
  [ st EXCEPT !.stats_live = { t \in @ : t.cid # cid },
              !.stats_tasks = IF TaskKey(cid) \in DOMAIN @ THEN Without(@, TaskKey(cid)) ELSE @ ]

\* The end of remove_container: the task recorded in _stats_tasks under the key,
\* if there is one, is cancelled and the entry deleted.
CancelStatsTask(st, cid) ==
  IF TaskKey(cid) \in DOMAIN st.stats_tasks
    THEN [ st EXCEPT !.stats_live = { t \in @ : t.tid # st.stats_tasks[TaskKey(cid)] },
                     !.stats_tasks = Without(@, TaskKey(cid)) ]
    ELSE st

\* remove_container on success: the container is removed at the daemon, the
\* record deleted, the recorded stats task cancelled.
RemoveContainerOk(st, cid) ==
  CancelStatsTask([ st EXCEPT !.dockerd = Without(@, cid),
                              !.containers = Without(@, cid) ], cid)

\* ------------------------------------------------------- docker: compose

\* The name the daemon knows the container of service s by (ContainerConfig.name);
\* project stands for what the names of one config have in common.
ServiceContainerName(project, s) == << project, s >>

\* The container ids of a deployment record, in the order of its containers dict.
ContainerIdsOf(deployment) ==
  [ i \in 1..Len(deployment.containers) |-> deployment.containers[i].cid ]

\* A variant of the order of the teardown loop: the dict order itself.
TeardownOrder_Forward(deployment) == ContainerIdsOf(deployment)

\* reversed(list(deployment.containers.values()))
TeardownOrder(deployment) == Reverse(ContainerIdsOf(deployment))

\* The for-loop of remove_compose_deployment over the containers still to visit.
\* fail is the set of containers whose daemon call fails.  A failure is logged
\* and, without force, raised again.
RECURSIVE RemoveContainersOf(_, _, _, _, _)
RemoveContainersOf(st, order, force, fail, log) ==
  IF order = << >>
    THEN [ st |-> st, log |-> log, raised |-> FALSE ]
    ELSE LET cid == Head(order)
             bad == RemoveContainerFails(st, cid, force, cid \notin fail)
             log1 == Append(log, [ op |-> "remove_container", target |-> cid, ok |-> ~bad ])
         IN IF bad
              THEN IF force
                     THEN RemoveContainersOf(st, Tail(order), force, fail, log1)
                     ELSE [ st |-> st, log |-> log1, raised |-> TRUE ]
              ELSE RemoveContainersOf(RemoveContainerOk(st, cid), Tail(order), force, fail, log1)

\* remove_compose_deployment(machine, deployment_id, force): the state it leaves,
\* the steps it took and its result ("true", "false", or "raised").
RemoveCompose(st, id, force, fail, net_ok) ==
  IF id \notin DOMAIN st.deployments
    THEN \* "Deployment not found" is raised inside the try
         [ st |-> st, log |-> << >>, result |-> IF force THEN "false" ELSE "raised" ]
    ELSE
      LET r == RemoveContainersOf(st, TeardownOrder(st.deployments[id]), force, fail, << >>)
          net_bad == ~net_ok \/ id \notin r.st.networks
          st2 == IF net_bad THEN r.st ELSE [ r.st EXCEPT !.networks = @ \ {id} ]
          log2 == Append(r.log, [ op |-> "remove_network", target |-> id, ok |-> ~net_bad ])
      IN IF r.raised
           THEN [ st |-> r.st, log |-> r.log, result |-> "raised" ]
         ELSE IF net_bad /\ ~force
           THEN [ st |-> st2, log |-> log2, result |-> "raised" ]
         ELSE [ st |-> [ st2 EXCEPT !.deployments = Without(@, id) ],
                log |-> Append(log2, [ op |-> "delete_record", target |-> id, ok |-> TRUE ]),
                result |-> "true" ]

\* check_circular_deps(service, chain) of validate_compose_config: whether it
\* raises "Circular dependency detected".
RECURSIVE CheckCircularDeps(_, _, _)
CheckCircularDeps(config, service, chain) ==
  \/ service \in chain
  \/ /\ service \in DOMAIN config
     /\ \E dep \in DependsOn(config, service) :
          CheckCircularDeps(config, dep, chain \cup {service})

\* Whether the depends_on graph of the config has a cycle: the check finds one
\* from some service.
HasCycle(config) == \E s \in DOMAIN config : CheckCircularDeps(config, s, {})

\* The docker state variables take the values of st.
SetDockerState(st) ==
  /\ containers' = st.containers
  /\ dockerd' = st.dockerd
  /\ networks' = st.networks
  /\ deployments' = st.deployments
  /\ stats_tasks' = st.stats_tasks
  /\ stats_live' = st.stats_live

\* DELETE /docker/compose/{id}: 404 unless the record is stored, then
\* remove_compose_deployment.
RemoveComposeDeployment(id, force, fail, net_ok) ==
  /\ id \in DOMAIN deployments
  /\ LET r == RemoveCompose(DockerState, id, force, fail, net_ok)
     IN /\ SetDockerState(r.st)
        /\ teardown_log' = [ teardown_log EXCEPT ![id] = r.log ]
  /\ UNCHANGED << deploy, made, creation_log, reached_running, outcome >>
  /\ UNCHANGED outside_docker

\* A variant in which a failed deploy_compose of an update goes on to the removal
\* of the deployment that was to be replaced.
DeployFailure_TearsOldDown(st, id) ==
  LET r == RemoveCompose(st, id, TRUE, {}, TRUE)
      old == IF deploy.pc = "for" THEN deploy.replaces ELSE 0
      r2 == IF old = 0 THEN r ELSE RemoveCompose(r.st, old, TRUE, {}, TRUE)
  IN /\ SetDockerState(r2.st)
     /\ teardown_log' = [ teardown_log EXCEPT ![id] = r.log ]
     /\ outcome' = [ outcome EXCEPT ![id] = "failed" ]
     /\ deploy' = Idle

\* The except branch of deploy_compose: remove_compose_deployment(machine,
\* deployment.id, force=True), whatever it raises swallowed, then DockerError.
DeployFailure(st, id) ==
  LET r == RemoveCompose(st, id, TRUE, {}, TRUE)
  IN /\ SetDockerState(r.st)
     /\ teardown_log' = [ teardown_log EXCEPT ![id] = r.log ]
     /\ outcome' = [ outcome EXCEPT ![id] = "failed" ]
     /\ deploy' = Idle

\* deploy_compose up to the loop: the ComposeDeployment object is made and the
\* network compose_<id> created (net_ok: whether create_network succeeds).
DeployBegin(config, net_ok) ==
  /\ deploy = Idle
  /\ made.deployments < MaxDeployments
  /\ LET id == made.deployments + 1
     IN /\ made' = [ made EXCEPT !.deployments = id ]
        /\ IF net_ok
             THEN /\ networks' = networks \cup {id}
                  /\ deploy' = [ pc |-> "while",
                                 id |-> id, config |-> config, i |-> 1,
                                 deployed |-> {}, containers |-> << >>,
                                 project |-> "svc", replaces |-> 0 ]
                  /\ UNCHANGED << containers, dockerd, deployments, stats_tasks,
                                  stats_live, teardown_log, outcome >>
             ELSE DeployFailure(DockerState, id)
  /\ UNCHANGED << creation_log, reached_running >>
  /\ UNCHANGED outside_docker

\* A variant of the dependency check that finds every service ready.
DependenciesMet_Always(config, s, deployed) == TRUE

\* The check "if dep not in deployed_services: dependencies_met = False".
DependenciesMet(config, s, deployed) ==
  \A dep \in DependsOn(config, s) : dep \in deployed

\* A variant with an "if" where the "while" is: one pass over the services.
Advance_OnePass(d) ==
  IF d.i < Len(d.config) THEN [ d EXCEPT !.i = @ + 1 ]
  ELSE [ d EXCEPT !.pc = "store" ]

\* The position after one pass of the for-loop body: the next service, or at
\* the end of the dict the while test.
Advance(d) ==
  IF d.i < Len(d.config) THEN [ d EXCEPT !.i = @ + 1 ]
  ELSE [ d EXCEPT !.pc = "while" ]

\* while len(deployed_services) < len(config.services): the for-loop is started
\* from the first service, or the loop is left.
DeployWhile ==
  /\ deploy.pc = "while"
  /\ deploy' = IF Cardinality(deploy.deployed) < Len(deploy.config)
                 THEN [ deploy EXCEPT !.pc = "for", !.i = 1 ]
                 ELSE [ deploy EXCEPT !.pc = "store" ]
  /\ UNCHANGED << containers, dockerd, networks, deployments, stats_tasks, stats_live,
                  made, creation_log, reached_running, teardown_log, outcome >>
  /\ UNCHANGED outside_docker

\* One pass of the for-loop body of deploy_compose, for the service at
\* position deploy.i; ok is whether the daemon lets create_container succeed.
DeployVisit(ok) ==
  /\ deploy.pc = "for"
  /\ LET s == deploy.i
         name == ServiceContainerName(deploy.project, s)
         cid == made.containers + 1
         tid == made.tasks + 1
     IN IF s \in deploy.deployed \/ ~DependenciesMet(deploy.config, s, deploy.deployed)
          THEN /\ deploy' = Advance(deploy)
               /\ UNCHANGED << containers, dockerd, networks, deployments, stats_tasks,
                               stats_live, made, creation_log, reached_running,
                               teardown_log, outcome >>
        ELSE IF CreateContainerFails(DockerState, name, ok)
          THEN /\ DeployFailure(DockerState, deploy.id)
               /\ UNCHANGED << made, creation_log, reached_running >>
        ELSE /\ SetDockerState(CreateContainerOk(DockerState, cid, name, tid))
             /\ made' = [ made EXCEPT !.containers = cid, !.tasks = tid ]
             /\ creation_log' = Append(creation_log,
                                  [ deployment |-> deploy.id, service |-> s, cid |-> cid,
                                    running |-> reached_running ])
             /\ reached_running' = reached_running \cup {cid}
             /\ deploy' = Advance([ deploy EXCEPT
                                      !.containers = Append(@, [ service |-> s, cid |-> cid ]),
                                      !.deployed = @ \cup {s} ])
             /\ UNCHANGED << teardown_log, outcome >>
  /\ UNCHANGED outside_docker

\* redis.set("compose_deployment:<id>", deployment.json())
StoreDeployment(d) ==
  (d.id :> [ id |-> d.id, config |-> d.config, containers |-> d.containers ]) @@ deployments

\* The end of deploy_compose: the deployment is stored and returned, to the
\* route or to update_compose_deployment.
DeployStore ==
  /\ deploy.pc = "store"
  /\ deployments' = StoreDeployment(deploy)
  /\ outcome' = [ outcome EXCEPT ![deploy.id] = "ok" ]
  /\ deploy' = IF deploy.replaces = 0 THEN Idle ELSE [ deploy EXCEPT !.pc = "teardown" ]
  /\ UNCHANGED << containers, dockerd, networks, stats_tasks, stats_live, made,
                  creation_log, reached_running, teardown_log >>
  /\ UNCHANGED outside_docker

\* update_compose_deployment up to the loop of the deploy_compose it calls:
\* "Deployment not found" without a record for id, else the new
\* ComposeDeployment and its network.
UpdateBegin(id, config, project, net_ok) ==
  /\ deploy = Idle
  /\ id \in DOMAIN deployments
  /\ made.deployments < MaxDeployments + MaxUpdates
  /\ LET new == made.deployments + 1
     IN /\ made' = [ made EXCEPT !.deployments = new ]
        /\ IF net_ok
             THEN /\ networks' = networks \cup {new}
                  /\ deploy' = [ pc |-> "while",
                                 id |-> new, config |-> config, i |-> 1,
                                 deployed |-> {}, containers |-> << >>,
                                 project |-> project, replaces |-> id ]
                  /\ UNCHANGED << containers, dockerd, deployments, stats_tasks,
                                  stats_live, teardown_log, outcome >>
             ELSE DeployFailure(DockerState, new)
  /\ UNCHANGED << creation_log, reached_running >>
  /\ UNCHANGED outside_docker

\* update_compose_deployment after deploy_compose returned:
\* remove_compose_deployment(machine, current_deployment.id, force=True), then
\* the new deployment is returned.
UpdateTeardown(fail, net_ok) ==
  /\ deploy.pc = "teardown"
  /\ LET r == RemoveCompose(DockerState, deploy.replaces, TRUE, fail, net_ok)
     IN /\ SetDockerState(r.st)
        /\ teardown_log' = [ teardown_log EXCEPT ![deploy.replaces] = r.log ]
  /\ deploy' = Idle
  /\ UNCHANGED << made, creation_log, reached_running, outcome >>
  /\ UNCHANGED outside_docker

\* ------------------------------------------------ docker: container API

DockerInit ==
  /\ containers = EmptyMap
  /\ dockerd = EmptyMap
  /\ networks = {}
  /\ deployments = EmptyMap
  /\ stats_tasks = EmptyMap
  /\ stats_live = {}
  /\ deploy = Idle
  /\ made = [ containers |-> 0, deployments |-> 0, tasks |-> 0, refused |-> FALSE ]
  /\ creation_log = << >>
  /\ reached_running = {}
  /\ teardown_log = [ d \in DeploymentIds |-> << >> ]
  /\ outcome = [ d \in DeploymentIds |-> "none" ]

\* POST /docker/containers: create_container; a failure is answered with 400
\* and leaves nothing behind.
CreateContainer(name, ok) ==
  /\ made.containers < MaxContainers
  /\ made.tasks < MaxTasks
  /\ LET cid == made.containers + 1
         tid == made.tasks + 1
     IN IF CreateContainerFails(DockerState, name, ok)
          THEN /\ made' = [ made EXCEPT !.refused =
                             @ \/ \E d \in DOMAIN dockerd : dockerd[d].name = name ]
               /\ UNCHANGED << containers, dockerd, networks, deployments, stats_tasks,
                               stats_live, reached_running >>
          ELSE /\ SetDockerState(CreateContainerOk(DockerState, cid, name, tid))
               /\ made' = [ made EXCEPT !.containers = cid, !.tasks = tid ]
               /\ reached_running' = reached_running \cup {cid}
  /\ UNCHANGED << deploy, creation_log, teardown_log, outcome >>
  /\ UNCHANGED outside_docker

\* POST /docker/containers/{id}/start: 404 without a record, then start_container.
StartContainer(cid, ok) ==
  /\ cid \in DOMAIN containers
  /\ made.tasks < MaxTasks
  /\ LET tid == made.tasks + 1
     IN IF ContainerOpFails(DockerState, cid, ok)
          THEN UNCHANGED << containers, dockerd, networks, deployments, stats_tasks,
                            stats_live, made, reached_running >>
          ELSE /\ SetDockerState(StartContainerOk(DockerState, cid, tid))
               /\ made' = [ made EXCEPT !.tasks = tid ]
               /\ reached_running' = reached_running \cup {cid}
  /\ UNCHANGED << deploy, creation_log, teardown_log, outcome >>
  /\ UNCHANGED outside_docker

\* POST /docker/containers/{id}/stop: 404 without a record, then stop_container.
StopContainer(cid, ok) ==
  /\ cid \in DOMAIN containers
  /\ IF ContainerOpFails(DockerState, cid, ok)
       THEN UNCHANGED << containers, dockerd, networks, deployments, stats_tasks, stats_live >>
       ELSE SetDockerState(StopContainerOk(DockerState, cid))
  /\ UNCHANGED << deploy, made, creation_log, reached_running, teardown_log, outcome >>
  /\ UNCHANGED outside_docker

\* DELETE /docker/containers/{id}: 404 without a record, then remove_container.
RemoveContainer(cid, force, ok) ==
  /\ cid \in DOMAIN containers
  /\ IF RemoveContainerFails(DockerState, cid, force, ok)
       THEN UNCHANGED << containers, dockerd, networks, deployments, stats_tasks, stats_live >>
       ELSE SetDockerState(RemoveContainerOk(DockerState, cid))
  /\ UNCHANGED << deploy, made, creation_log, reached_running, teardown_log, outcome >>
  /\ UNCHANGED outside_docker

\* One round of the loop of _collect_container_stats in task t: with the
\* container found at the daemon and its stats read (ok), the task's Container
\* object gets the stats and is written to "container:<id>"; any exception is
\* logged and the loop goes on.
StatsSample(t, ok) ==
  /\ t \in stats_live
  /\ IF ok /\ t.cid \in DOMAIN dockerd
       THEN LET c == [ t.snapshot EXCEPT !.stats = TRUE ]
            IN /\ containers' = (t.cid :> c) @@ containers
               /\ stats_live' = (stats_live \ {t}) \cup { [ t EXCEPT !.snapshot = c ] }
       ELSE UNCHANGED << containers, stats_live >>
  /\ UNCHANGED << dockerd, networks, deployments, stats_tasks, deploy, made,
                  creation_log, reached_running, teardown_log, outcome >>
  /\ UNCHANGED outside_docker

\* ----------------------------------------------------------- docker: system

\* The container API and the stats tasks.
NextContainers ==
  \/ \E name \in ContainerNames, ok \in BOOLEAN : CreateContainer(name, ok)
  \/ \E cid \in DOMAIN containers, ok \in BOOLEAN : StartContainer(cid, ok)
  \/ \E cid \in DOMAIN containers, ok \in BOOLEAN : StopContainer(cid, ok)
  \/ \E cid \in DOMAIN containers, force \in BOOLEAN, ok \in BOOLEAN :
       RemoveContainer(cid, force, ok)
  \/ \E t \in stats_live, ok \in BOOLEAN : StatsSample(t, ok)

\* The compose API.
NextCompose ==
  \/ \E config \in ComposeConfigs, net_ok \in BOOLEAN : DeployBegin(config, net_ok)
  \/ DeployWhile
  \/ \E ok \in BOOLEAN : DeployVisit(ok)
  \/ DeployStore
  \/ \E id \in DeploymentIds, force \in BOOLEAN, net_ok \in BOOLEAN :
       \E fail \in SUBSET DOMAIN containers :
         RemoveComposeDeployment(id, force, fail, net_ok)
  \/ \E cid \in DOMAIN containers, ok \in BOOLEAN : StopContainer(cid, ok)
  \/ \E cid \in DOMAIN containers, force \in BOOLEAN, ok \in BOOLEAN :
       RemoveContainer(cid, force, ok)

\* Deployments replaced by update_compose_deployment.
NextUpdate ==
  \/ \E config \in { c \in ComposeConfigs : Len(c) < MaxServices }, net_ok \in BOOLEAN :
       DeployBegin(config, net_ok)
  \/ DeployWhile
  \/ \E ok \in BOOLEAN : DeployVisit(ok)
  \/ DeployStore
  \/ \E id \in DeploymentIds, config \in { c \in ComposeConfigs : Len(c) < MaxServices },
        project \in {"svc", "next"}, net_ok \in BOOLEAN :
       UpdateBegin(id, config, project, net_ok)
  \/ \E net_ok \in BOOLEAN : \E fail \in SUBSET DOMAIN containers :
       UpdateTeardown(fail, net_ok)

\* ---------------------------------------------------------- machines: data

MachineIds == 1..MaxMachines
MonitorTaskIds == 1..MaxMonitorTasks
MachineNames == {"alpha", "beta"}
IpAddresses == {"10.0.0.1", "10.0.0.2"}
SshKeys == {"key-a", "key-b"}

\* MachineStatus
MachineStatuses == {"active", "inactive", "error", "initializing", "maintenance"}

\* self._monitoring_intervals[machine.id] = 30
DefaultInterval == 30

\* A field of MachineUpdate left at None.
Unset == "unset"
MachineUpdates ==
  [ name : MachineNames \cup {Unset}, ip_address : IpAddresses \cup {Unset},
    ssh_key : SshKeys \cup {Unset} ]

\* Machine(name=..., ip_address=..., ssh_key=..., metadata=...): the other
\* fields at their defaults.
NewMachine(id, name, ip_address, ssh_key) ==
  [ id |-> id, name |-> name, ip_address |-> ip_address, ssh_key |-> ssh_key,
    status |-> "initializing", system_info |-> FALSE, last_seen |-> NoTime ]

StoredMachineIds == { id \in MachineIds : machines[id] # None }

\* The fields SystemMetrics requires (those without a default) and the keyword
\* arguments collect_system_metrics constructs it with.
SystemMetricsRequired ==
  { "cpu_usage", "cpu_cores", "memory_total", "memory_used", "memory_free",
    "disk_total", "disk_used", "disk_free", "network_rx_bytes", "network_tx_bytes",
    "docker_status", "docker_containers", "docker_running", "load_average", "uptime" }
SystemMetricsSupplied ==
  { "cpu_usage", "memory_total", "memory_used", "disk_total", "disk_used",
    "docker_status" }

\* What the machine answers to a probe once a session is at hand: the session
\* fails, the output of a command does not parse, or all of it parses.
ProbeOutcomes == {"connect_error", "unparsable", "parsed"}

\* collect_system_metrics: every exception, the MachineConnectionError of
\* get_ssh_client included, is caught and None returned; with all outputs parsed
\* the SystemMetrics constructor validates its arguments.
CollectSystemMetrics(answer) ==
  IF answer = "parsed" /\ SystemMetricsRequired \subseteq SystemMetricsSupplied
    THEN "metrics"
    ELSE "none"

\* The status the body of the monitor loop gives the machine: ACTIVE with
\* metrics, ERROR without, INACTIVE in the handler of MachineConnectionError.
MonitoredStatus(result) ==
  IF result = "metrics" THEN "active"
  ELSE IF result = "none" THEN "error"
  ELSE "inactive"

\* get_ssh_client: a cached session is handed out as it is; without one a
\* connection to machine.ip_address with machine.ssh_key is opened (conn_ok:
\* whether it succeeds) and cached.
GetSshClientFails(clients, machine, conn_ok) ==
  machine.id \notin DOMAIN clients /\ ~conn_ok

SshClientsAfter(clients, machine, conn_ok) ==
  IF machine.id \in DOMAIN clients \/ ~conn_ok
    THEN clients
    ELSE (machine.id :> [ ip_address |-> machine.ip_address, ssh_key |-> machine.ssh_key ])
           @@ clients

\* The connection attempt get_ssh_client makes, if it makes one.
ProbeAfter(clients, machine, conn_ok) ==
  IF machine.id \in DOMAIN clients
    THEN last_probe
    ELSE [ id |-> machine.id, ip_address |-> machine.ip_address,
           ssh_key |-> machine.ssh_key, ok |-> conn_ok ]

\* The open sessions after get_ssh_client: one more for the machine when a
\* connection was opened.
SshOpenAfter(clients, machine, conn_ok) ==
  IF machine.id \in DOMAIN clients \/ ~conn_ok
    THEN ssh_open
    ELSE [ ssh_open EXCEPT ![machine.id] = @ + 1 ]

\* "Test connection": ACTIVE inside the async with, ERROR on MachineConnectionError.
TestedStatus(clients, machine, conn_ok) ==
  IF GetSshClientFails(clients, machine, conn_ok) THEN "error" ELSE "active"

\* --------------------------------------------------------- machines: API

\* A monitor task that was not started.
MonitorOff == [ pc |-> "off", todo |-> << >>, cur |-> None, failed |-> FALSE,
                probe |-> "none" ]

MachinesInit ==
  /\ machines = [ id \in MachineIds |-> None ]
  /\ ssh_clients = EmptyMap
  /\ monitoring_intervals = EmptyMap
  /\ monitor = [ t \in MonitorTaskIds |-> MonitorOff ]
  /\ deleting = {}
  /\ ssh_calls = [ c \in 1..MaxCallers |-> None ]
  /\ machines_made = 0
  /\ last_probe = None
  /\ ssh_open = [ id \in MachineIds |-> 0 ]

\* create_machine
CreateMachine(name, ip_address, ssh_key, conn_ok) ==
  /\ machines_made < MaxMachines
  /\ LET id == machines_made + 1
         machine == NewMachine(id, name, ip_address, ssh_key)
     IN /\ machines' = [ machines EXCEPT ![id] =
                           [ machine EXCEPT !.status = TestedStatus(ssh_clients, machine, conn_ok) ] ]
        /\ ssh_clients' = SshClientsAfter(ssh_clients, machine, conn_ok)
        /\ last_probe' = ProbeAfter(ssh_clients, machine, conn_ok)
        /\ ssh_open' = SshOpenAfter(ssh_clients, machine, conn_ok)
        /\ monitoring_intervals' = (id :> DefaultInterval) @@ monitoring_intervals
        /\ machines_made' = id
  /\ UNCHANGED << monitor, deleting, ssh_calls >>
  /\ UNCHANGED outside_machines

\* The fields update_machine sets from the MachineUpdate.
UpdatedFields(machine, data) ==
  [ machine EXCEPT
      !.name = IF data.name # Unset THEN data.name ELSE @,
      !.ip_address = IF data.ip_address # Unset THEN data.ip_address ELSE @,
      !.ssh_key = IF data.ssh_key # Unset THEN data.ssh_key ELSE @ ]

\* update_machine: None for an id without a record.
UpdateMachine(id, data, conn_ok) ==
  /\ machines[id] # None
  /\ LET machine == UpdatedFields(machines[id], data)
         test == data.ip_address # Unset \/ data.ssh_key # Unset
     IN /\ machines' = [ machines EXCEPT ![id] =
                           IF test
                             THEN [ machine EXCEPT !.status =
                                      TestedStatus(ssh_clients, machine, conn_ok) ]
                             ELSE machine ]
        /\ ssh_clients' = IF test THEN SshClientsAfter(ssh_clients, machine, conn_ok)
                                  ELSE ssh_clients
        /\ last_probe' = IF test THEN ProbeAfter(ssh_clients, machine, conn_ok)
                                 ELSE last_probe
        /\ ssh_open' = IF test THEN SshOpenAfter(ssh_clients, machine, conn_ok)
                               ELSE ssh_open
  /\ UNCHANGED << monitoring_intervals, monitor, deleting, ssh_calls, machines_made >>
  /\ UNCHANGED outside_machines

\* delete_machine up to its await: redis.delete("machine:<id>").
DeleteMachineRedis(id) ==
  /\ id \in 1..machines_made
  /\ id \notin deleting
  /\ machines' = [ machines EXCEPT ![id] = None ]
  /\ deleting' = deleting \cup {id}
  /\ UNCHANGED << ssh_clients, monitoring_intervals, monitor, machines_made, last_probe >>
  /\ UNCHANGED << ssh_calls, ssh_open >>
  /\ UNCHANGED outside_machines

\* delete_machine from its await to its return: the cached session is closed
\* and dropped, the monitoring entry deleted.
DeleteMachineFinish(id) ==
  /\ id \in deleting
  /\ ssh_clients' = Without(ssh_clients, id)
  /\ monitoring_intervals' = Without(monitoring_intervals, id)
  /\ deleting' = deleting \ {id}
  /\ ssh_open' = IF id \in DOMAIN ssh_clients THEN [ ssh_open EXCEPT ![id] = @ - 1 ]
                                                ELSE ssh_open
  /\ UNCHANGED << machines, monitor, ssh_calls, machines_made, last_probe >>
  /\ UNCHANGED outside_machines

\* An administrator puts the machine into MAINTENANCE.
SetMaintenance(id) ==
  /\ machines[id] # None
  /\ machines' = [ machines EXCEPT ![id].status = "maintenance" ]
  /\ UNCHANGED << ssh_clients, monitoring_intervals, monitor, deleting, machines_made,
                  last_probe >>
  /\ UNCHANGED << ssh_calls, ssh_open >>
  /\ UNCHANGED outside_machines

\* ----------------------------------------------------- machines: sessions

\* get_ssh_client up to its await, entered by a caller of execute_command with
\* the machine it read: no session is cached for the machine, the key file is
\* written and asyncssh.connect awaited.  (With a session cached the call
\* yields it and changes nothing.)
GetSshClientEnter(c, id) ==
  /\ ssh_calls[c] = None
  /\ machines[id] # None
  /\ id \notin DOMAIN ssh_clients
  /\ ssh_calls' = [ ssh_calls EXCEPT ![c] = machines[id] ]
  /\ UNCHANGED << machines, ssh_clients, monitoring_intervals, monitor, deleting,
                  machines_made, last_probe, ssh_open >>
  /\ UNCHANGED outside_machines

\* asyncssh.connect returns: the session is stored under machine.id, over
\* whatever is cached there by now; a failed connection raises
\* MachineConnectionError.
GetSshClientConnected(c, conn_ok) ==
  /\ ssh_calls[c] # None
  /\ LET machine == ssh_calls[c]
     IN /\ ssh_open[machine.id] < MaxSessions
        /\ ssh_clients' =
             IF conn_ok
               THEN (machine.id :> [ ip_address |-> machine.ip_address,
                                     ssh_key |-> machine.ssh_key ]) @@ ssh_clients
               ELSE ssh_clients
        /\ ssh_open' = IF conn_ok THEN [ ssh_open EXCEPT ![machine.id] = @ + 1 ]
                                  ELSE ssh_open
        /\ last_probe' = [ id |-> machine.id, ip_address |-> machine.ip_address,
                           ssh_key |-> machine.ssh_key, ok |-> conn_ok ]
  /\ ssh_calls' = [ ssh_calls EXCEPT ![c] = None ]
  /\ UNCHANGED << machines, monitoring_intervals, monitor, deleting, machines_made >>
  /\ UNCHANGED outside_machines

\* ------------------------------------------------------ machines: monitor

\* initialize creates the monitor task; the plugin manager initializes a plugin
\* once (discover_plugins returns when it already ran).
MayStartMonitoring_Always == TRUE

MayStartMonitoring == \A t \in MonitorTaskIds : monitor[t].pc = "off"

\* The task create_task makes next.
NextMonitorTask ==
  CHOOSE t \in MonitorTaskIds :
    monitor[t].pc = "off" /\ \A u \in MonitorTaskIds : monitor[u].pc = "off" => t <= u

\* self.monitoring_task = asyncio.create_task(machine_service.monitor_machines())
StartMonitoring ==
  /\ MayStartMonitoring
  /\ \E t \in MonitorTaskIds : monitor[t].pc = "off"
  /\ monitor' = [ monitor EXCEPT ![NextMonitorTask] = [ MonitorOff EXCEPT !.pc = "list" ] ]
  /\ UNCHANGED << machines, ssh_clients, monitoring_intervals, deleting, machines_made,
                  last_probe >>
  /\ UNCHANGED << ssh_calls, ssh_open >>
  /\ UNCHANGED outside_machines

\* The orders in which redis.keys("machine:*") may list the stored records.
KeyOrders(ids) ==
  { order \in [ 1..Cardinality(ids) -> ids ] :
      \A i, j \in 1..Cardinality(ids) : order[i] = order[j] => i = j }

\* machines = await self.list_machines(): the task's own copies of the records.
MonitorList(t, order) ==
  /\ monitor[t].pc = "list"
  /\ order \in KeyOrders(StoredMachineIds)
  /\ monitor' = [ monitor EXCEPT ![t].pc = "for",
                                 ![t].todo = [ i \in 1..Len(order) |-> machines[order[i]] ] ]
  /\ UNCHANGED << machines, ssh_clients, monitoring_intervals, deleting, machines_made,
                  last_probe >>
  /\ UNCHANGED << ssh_calls, ssh_open >>
  /\ UNCHANGED outside_machines

\* if machine.id not in self._monitoring_intervals: continue
MonitorSkip(t) ==
  /\ monitor[t].pc = "for"
  /\ monitor[t].todo # << >>
  /\ Head(monitor[t].todo).id \notin DOMAIN monitoring_intervals
  /\ monitor' = [ monitor EXCEPT ![t].todo = Tail(@) ]
  /\ UNCHANGED << machines, ssh_clients, monitoring_intervals, deleting, machines_made,
                  last_probe >>
  /\ UNCHANGED << ssh_calls, ssh_open >>
  /\ UNCHANGED outside_machines

\* The iteration of the next machine begins: interval read, collect_system_metrics
\* called, which enters get_ssh_client with the task's copy of the machine.
MonitorBegin(t, conn_ok) ==
  /\ monitor[t].pc = "for"
  /\ monitor[t].todo # << >>
  /\ LET machine == Head(monitor[t].todo)
     IN /\ machine.id \in DOMAIN monitoring_intervals
        /\ monitor' = [ monitor EXCEPT
                          ![t].pc = "probe",
                          ![t].cur = machine,
                          ![t].failed = GetSshClientFails(ssh_clients, machine, conn_ok) ]
        /\ ssh_clients' = SshClientsAfter(ssh_clients, machine, conn_ok)
        /\ last_probe' = ProbeAfter(ssh_clients, machine, conn_ok)
        /\ ssh_open' = SshOpenAfter(ssh_clients, machine, conn_ok)
  /\ UNCHANGED << machines, monitoring_intervals, deleting, ssh_calls, machines_made >>
  /\ UNCHANGED outside_machines

\* The rest of the iteration: the commands run on the session (run: what the
\* machine answers; a session that failed to open, or was closed meanwhile, is
\* a connection error), the status is set on the task's copy and the copy is
\* written to "machine:<id>".
MonitorFinish(t, run) ==
  /\ monitor[t].pc = "probe"
  /\ LET machine == monitor[t].cur
         answer == IF monitor[t].failed \/ machine.id \notin DOMAIN ssh_clients
                      THEN "connect_error"
                      ELSE run
         result == CollectSystemMetrics(answer)
         written == [ machine EXCEPT
                        !.status = MonitoredStatus(result),
                        !.system_info = IF result = "metrics" THEN TRUE ELSE @,
                        !.last_seen = IF result = "metrics" THEN now ELSE @ ]
     IN /\ machines' = [ machines EXCEPT ![machine.id] = written ]
        /\ monitor' = [ monitor EXCEPT ![t].pc = "sleep", ![t].probe = answer ]
  /\ UNCHANGED << ssh_clients, monitoring_intervals, deleting, machines_made, last_probe >>
  /\ UNCHANGED << ssh_calls, ssh_open >>
  /\ UNCHANGED outside_machines

\* await asyncio.sleep(interval), inside the for loop.
MonitorSleep(t) ==
  /\ monitor[t].pc = "sleep"
  /\ monitor' = [ monitor EXCEPT ![t].pc = "for", ![t].todo = Tail(@), ![t].cur = None,
                                 ![t].failed = FALSE, ![t].probe = "none" ]
  /\ UNCHANGED << machines, ssh_clients, monitoring_intervals, deleting, machines_made,
                  last_probe >>
  /\ UNCHANGED << ssh_calls, ssh_open >>
  /\ UNCHANGED outside_machines

\* await asyncio.sleep(1), then the next pass of while True.
MonitorPassEnd(t) ==
  /\ monitor[t].pc = "for"
  /\ monitor[t].todo = << >>
  /\ monitor' = [ monitor EXCEPT ![t].pc = "list" ]
  /\ UNCHANGED << machines, ssh_clients, monitoring_intervals, deleting, machines_made,
                  last_probe >>
  /\ UNCHANGED << ssh_calls, ssh_open >>
  /\ UNCHANGED outside_machines

\* -------------------------------------------------------- machines: system

\* The machines plugin with its monitor running: machines registered, put into
\* maintenance and deleted while the monitor task passes over them.
NextMonitor ==
  \/ StartMonitoring
  \/ \E name \in MachineNames, conn_ok \in BOOLEAN :
       CreateMachine(name, "10.0.0.1", "key-a", conn_ok)
  \/ \E id \in MachineIds : SetMaintenance(id)
  \/ \E id \in MachineIds : DeleteMachineRedis(id)
  \/ \E id \in MachineIds : DeleteMachineFinish(id)
  \/ \E t \in MonitorTaskIds :
       \E order \in KeyOrders(StoredMachineIds) : MonitorList(t, order)
  \/ \E t \in MonitorTaskIds : MonitorSkip(t)
  \/ \E t \in MonitorTaskIds, conn_ok \in BOOLEAN : MonitorBegin(t, conn_ok)
  \/ \E t \in MonitorTaskIds, run \in ProbeOutcomes : MonitorFinish(t, run)
  \/ \E t \in MonitorTaskIds : MonitorSleep(t)
  \/ \E t \in MonitorTaskIds : MonitorPassEnd(t)

\* Commands executed on registered machines by concurrent requests.
NextSessions ==
  \/ \E conn_ok \in BOOLEAN : CreateMachine("alpha", "10.0.0.1", "key-a", conn_ok)
  \/ \E c \in 1..MaxCallers, id \in MachineIds : GetSshClientEnter(c, id)
  \/ \E c \in 1..MaxCallers, conn_ok \in BOOLEAN : GetSshClientConnected(c, conn_ok)
  \/ \E id \in MachineIds : DeleteMachineRedis(id)
  \/ \E id \in MachineIds : DeleteMachineFinish(id)

\* Machines updated while the monitor task passes over them.
NextMonitorUpdate ==
  \/ StartMonitoring
  \/ \E conn_ok \in BOOLEAN : CreateMachine("alpha", "10.0.0.1", "key-a", conn_ok)
  \/ \E id \in MachineIds :
       UpdateMachine(id, [ name |-> "beta", ip_address |-> Unset, ssh_key |-> Unset ], TRUE)
  \/ \E id \in MachineIds : DeleteMachineRedis(id)
  \/ \E id \in MachineIds : DeleteMachineFinish(id)
  \/ \E t \in MonitorTaskIds :
       \E order \in KeyOrders(StoredMachineIds) : MonitorList(t, order)
  \/ \E t \in MonitorTaskIds : MonitorSkip(t)
  \/ \E t \in MonitorTaskIds, conn_ok \in BOOLEAN : MonitorBegin(t, conn_ok)
  \/ \E t \in MonitorTaskIds, run \in ProbeOutcomes : MonitorFinish(t, run)
  \/ \E t \in MonitorTaskIds : MonitorSleep(t)
  \/ \E t \in MonitorTaskIds : MonitorPassEnd(t)

\* The registry of machines: create, update and delete.
NextMachineApi ==
  \/ \E name \in MachineNames, ip_address \in IpAddresses, ssh_key \in SshKeys,
        conn_ok \in BOOLEAN : CreateMachine(name, ip_address, ssh_key, conn_ok)
  \/ \E id \in MachineIds, data \in MachineUpdates, conn_ok \in BOOLEAN :
       UpdateMachine(id, data, conn_ok)
  \/ \E id \in MachineIds : DeleteMachineRedis(id)
  \/ \E id \in MachineIds : DeleteMachineFinish(id)

\* ---------------------------------------------------------- plugin manager

\* The plugins of app.plugins that are enabled, by metadata.name.
PluginNames == {"machines", "docker", "monitoring"}

PluginInit ==
  pm = [ pc |-> "idle", initialized |-> FALSE, plugins |-> << >>,
         dependency_graph |-> [ n \in PluginNames |-> {} ],
         discovered_plugins |-> {}, initialized_plugins |-> {}, ready_plugins |-> {},
         cleanup_tasks |-> << >>, cleaning |-> {}, cleaned |-> {},
         services |-> {}, plugin_services |-> {},
         calls |-> 0, result |-> "none" ]

\* discover_plugins up to the while loop: nothing when it already ran; else the
\* plugin classes are collected and their dependencies added to the graph.
DiscoverPlugins(graph) ==
  /\ pm.pc = "idle"
  /\ ~pm.initialized
  /\ pm.calls < MaxDiscoverCalls
  /\ pm' = [ pm EXCEPT
               !.pc = "while",
               !.dependency_graph = [ n \in PluginNames |-> @[n] \cup graph[n] ],
               !.discovered_plugins = PluginNames,
               !.initialized_plugins = {},
               !.calls = @ + 1,
               !.result = "none" ]
  /\ UNCHANGED outside_plugins

\* A variant that takes every discovered plugin as ready.
ReadyPlugins_All(discovered, done, graph) == discovered

\* ready_plugins: the discovered plugins whose dependencies are all in
\* initialized_plugins.
ReadyPlugins(discovered, done, graph) ==
  { n \in discovered : graph[n] \subseteq done }

\* The head of the while loop: done (self._initialized = True), or nothing is
\* ready (PluginError "Circular dependency detected"), or the next for loop.
DiscoverPass ==
  /\ pm.pc = "while"
  /\ LET ready == ReadyPlugins(pm.discovered_plugins, pm.initialized_plugins,
                               pm.dependency_graph)
     IN pm' = IF pm.discovered_plugins = {}
                THEN [ pm EXCEPT !.pc = "idle", !.initialized = TRUE, !.result = "ok" ]
              ELSE IF ready = {}
                THEN [ pm EXCEPT !.pc = "idle", !.result = "error" ]
              ELSE [ pm EXCEPT !.pc = "for", !.ready_plugins = ready ]
  /\ UNCHANGED outside_plugins

\* PluginManager.register_service(name, service): the service is entered in
\* self._services and in app.state.plugin_services.
RegisterService(name) ==
  /\ pm.pc = "idle"
  /\ pm.initialized
  /\ pm' = [ pm EXCEPT !.services = @ \cup {name}, !.plugin_services = @ \cup {name} ]
  /\ UNCHANGED outside_plugins

\* One round of the for loop over ready_plugins: the plugin is constructed,
\* given the app, and its initialize() awaited (ok: it returns; else
\* PluginError).  The initialize() of machines and of monitoring publishes the
\* plugin's service with Plugin.register_service, which enters it in
\* app.state.plugin_services.
InitializePlugin(name, ok) ==
  /\ pm.pc = "for"
  /\ name \in pm.ready_plugins
  /\ pm' = IF ok
             THEN [ pm EXCEPT
                      !.plugin_services = IF name \in {"machines", "monitoring"}
                                            THEN @ \cup {name} ELSE @,
                      !.plugins = Append(@, name),
                      !.initialized_plugins = @ \cup {name},
                      !.discovered_plugins = @ \ {name},
                      !.ready_plugins = @ \ {name},
                      !.pc = IF pm.ready_plugins = {name} THEN "while" ELSE "for" ]
             ELSE [ pm EXCEPT !.pc = "idle", !.result = "error" ]
  /\ UNCHANGED outside_plugins

\* cleanup_plugins up to its await: one task per plugin is created, in reverse
\* order of self.plugins.
CleanupPlugins ==
  /\ pm.pc = "idle"
  /\ pm.plugins # << >>
  /\ pm' = [ pm EXCEPT !.pc = "gather", !.cleanup_tasks = Reverse(pm.plugins),
                       !.cleaning = {}, !.cleaned = {} ]
  /\ UNCHANGED outside_plugins

\* The event loop starts the tasks in the order of their creation; a task runs
\* plugin.cleanup() up to its first await.
CleanupBegin ==
  /\ pm.pc = "gather"
  /\ pm.cleanup_tasks # << >>
  /\ pm' = [ pm EXCEPT !.cleanup_tasks = Tail(@), !.cleaning = @ \cup {Head(pm.cleanup_tasks)} ]
  /\ UNCHANGED outside_plugins

\* A cleanup task that was started ends (returning or raising).
CleanupEnd(name) ==
  /\ pm.pc = "gather"
  /\ name \in pm.cleaning
  /\ pm' = [ pm EXCEPT !.cleaning = @ \ {name}, !.cleaned = @ \cup {name} ]
  /\ UNCHANGED outside_plugins

\* gather returns: self.plugins, self._services and the graph are cleared.
CleanupFinish ==
  /\ pm.pc = "gather"
  /\ pm.cleanup_tasks = << >>
  /\ pm.cleaning = {}
  /\ pm' = [ pm EXCEPT !.pc = "idle", !.plugins = << >>, !.initialized = FALSE,
                       !.services = {},
                       !.dependency_graph = [ n \in PluginNames |-> {} ] ]
  /\ UNCHANGED outside_plugins

\* The application's startup and shutdown.
NextPlugins ==
  \/ \E graph \in [ PluginNames -> SUBSET PluginNames ] : DiscoverPlugins(graph)
  \/ DiscoverPass
  \/ \E name \in PluginNames, ok \in BOOLEAN : InitializePlugin(name, ok)
  \/ RegisterService("docker")
  \/ CleanupPlugins
  \/ CleanupBegin
  \/ \E name \in PluginNames : CleanupEnd(name)
  \/ CleanupFinish

\* ----------------------------------------------------------------- metrics

\* The step of get_timeseries through the keys of an interval, in ticks.
Step(res) == IF res = "1m" THEN TicksPerMinute ELSE TicksPerMinute * MinutesPerHour

\* timestamp.replace(second=0, microsecond=0), and .replace(minute=0) for the hour.
BucketStart(res, t) == t - (t % Step(res))

\* Time passes.
ClockTick ==
  /\ clock < MaxClock
  /\ clock' = clock + 1
  /\ UNCHANGED << metrics, timeseries, recording, ts_query >>
  /\ UNCHANGED outside_metrics

\* record_metric up to its first await: the Metric is built (timestamp: utcnow)
\* and stored under "metric:<metric.id>"; no other key of the form "metric:..."
\* is written.
RecordMetric(p, value, labels) ==
  /\ recording[p] = None
  /\ Len(metrics) < MaxSamples
  /\ LET metric == [ value |-> value, timestamp |-> clock, labels |-> labels ]
     IN /\ metrics' = Append(metrics, metric)
        /\ recording' = [ recording EXCEPT ![p] = metric ]
  /\ UNCHANGED << timeseries, clock, ts_query >>
  /\ UNCHANGED outside_metrics

\* The rest of record_metric, _update_timeseries: the point is pushed to the
\* right of the list of its minute, and to that of its hour when its minute is
\* the first of the hour.
UpdateTimeseries(p) ==
  /\ recording[p] # None
  /\ LET point == recording[p]
         Push(ts, res) ==
           LET key == << res, BucketStart(res, point.timestamp) >>
           IN (key :> (IF key \in DOMAIN ts THEN Append(ts[key], point) ELSE << point >>))
                @@ ts
         minute == Push(timeseries, "1m")
     IN timeseries' = IF BucketStart("1m", point.timestamp) = BucketStart("1h", point.timestamp)
                        THEN Push(minute, "1h")
                        ELSE minute
  /\ recording' = [ recording EXCEPT ![p] = None ]
  /\ UNCHANGED << metrics, clock, ts_query >>
  /\ UNCHANGED outside_metrics

\* all(value.labels.get(k) == v for k, v in labels.items()); an empty selector
\* filters nothing.
LabelsMatch(selector, labels) ==
  \A k \in DOMAIN selector : k \in DOMAIN labels /\ labels[k] = selector[k]

\* get_timeseries: from current_time = start_time on, the list under the key of
\* current_time is read and filtered, and current_time moved on by the interval,
\* while current_time <= end_time.
RECURSIVE GetTimeseries(_, _, _, _, _)
GetTimeseries(ts, current_time, end_time, interval, labels) ==
  IF current_time > end_time
    THEN << >>
    ELSE LET key == << interval, current_time >>
             values == IF key \in DOMAIN ts THEN ts[key] ELSE << >>
         IN SelectSeq(values, LAMBDA v : LabelsMatch(labels, v.labels))
              \o GetTimeseries(ts, current_time + Step(interval), end_time, interval, labels)

\* GET /monitoring/metrics/{name}/timeseries
QueryTimeseries(start_time, end_time, interval, labels) ==
  /\ start_time <= end_time
  /\ ts_query' = [ start_time |-> start_time, end_time |-> end_time,
                   interval |-> interval, labels |-> labels,
                   data_points |->
                     GetTimeseries(timeseries, start_time, end_time, interval, labels) ]
  /\ UNCHANGED << metrics, timeseries, recording, clock >>
  /\ UNCHANGED outside_metrics

\* get_timeseries up to its loop: data_points = [], current_time = start_time.
\* The service takes any string as interval.
GetTimeseriesBegin(start_time, end_time, interval, labels) ==
  /\ IF ts_query = None THEN TRUE ELSE ts_query.pc = "done"
  /\ start_time <= end_time
  /\ ts_query' = [ pc |-> "while", start_time |-> start_time, end_time |-> end_time,
                   interval |-> interval, labels |-> labels,
                   current_time |-> start_time, data_points |-> << >> ]
  /\ UNCHANGED << metrics, timeseries, recording, clock >>
  /\ UNCHANGED outside_metrics

\* A step of the loop of get_timeseries.  At the while test: with current_time
\* past end_time the TimeseriesData is returned, else redis.lrange is awaited
\* for the key of current_time.  With the list at hand: it is filtered, and
\* current_time is moved on by a minute for "1m", by an hour for "1h", and not
\* at all for another interval.
GetTimeseriesPass ==
  /\ IF ts_query = None THEN FALSE ELSE ts_query.pc \in {"while", "lrange"}
  /\ LET q == ts_query
         key == << q.interval, q.current_time >>
         values == IF key \in DOMAIN timeseries THEN timeseries[key] ELSE << >>
     IN ts_query' =
          IF q.pc = "while"
            THEN [ q EXCEPT !.pc = IF q.current_time <= q.end_time THEN "lrange"
                                                                    ELSE "done" ]
            ELSE [ q EXCEPT
                     !.pc = "while",
                     !.data_points = @ \o SelectSeq(values,
                                            LAMBDA v : LabelsMatch(q.labels, v.labels)),
                     !.current_time = IF q.interval \in {"1m", "1h"}
                                        THEN @ + Step(q.interval)
                                        ELSE @ ]
  /\ UNCHANGED << metrics, timeseries, recording, clock >>
  /\ UNCHANGED outside_metrics

\* The timeseries store read by get_timeseries calls of any interval.
NextQuery ==
  \/ ClockTick
  \/ RecordMetric(1, MaxValue, [ host |-> "a" ])
  \/ UpdateTimeseries(1)
  \/ \E start_time, end_time \in 0..MaxClock, interval \in {"1m", "1h", "5m"} :
       GetTimeseriesBegin(start_time, end_time, interval, EmptyMap)
  \/ GetTimeseriesPass

\* The timeseries store: concurrent producers record values, readers query.
NextTimeseries ==
  \/ ClockTick
  \/ \E p \in 1..MaxProducers, value \in {0, MaxValue},
        labels \in {[ host |-> "a" ], [ host |-> "b" ]} : RecordMetric(p, value, labels)
  \/ \E p \in 1..MaxProducers : UpdateTimeseries(p)
  \/ \E start_time, end_time \in 0..MaxClock, interval \in {"1m", "1h"},
        labels \in {EmptyMap, [ host |-> "a" ]} :
       QueryTimeseries(start_time, end_time, interval, labels)

\* The metrics plugin at work: rules are submitted, values recorded, and the
\* evaluator ticks.
NextMetrics ==
  \/ \E rule \in MetricRuleInputs : CreateAlertRule(rule)
  \/ ClockTick
  \/ \E value \in RecordedValues : RecordMetric(1, value, [ host |-> "a" ])
  \/ UpdateTimeseries(1)
  \/ EvalStart
  \/ \E rule \in MetricRuleInputs, md \in LatestData : EvalRule(rule, md)
  \/ EvalUpdateGet
  \/ EvalUpdateSet
  \/ EvalSleep

\* ----------------------------------------------------- monitoring: system

\* The alert store and its writers: the operator's routes and the evaluator.
NextAlerts ==
  \/ \E rule \in RuleInputs : CreateAlertRule(rule)
  \/ \E a \in AlertIds : AcknowledgeAlert(a)
  \/ \E a \in AlertIds : ResolveAlert(a)
  \/ EvalStart
  \/ \E rule \in RuleInputs, md \in MetricData : EvalRule(rule, md)
  \/ EvalUpdateGet
  \/ EvalUpdateSet
  \/ EvalSleep

\* The notification pipeline: the evaluator that fills the queue and the
\* notifier worker that drains it.
NextNotify ==
  \/ \E rule \in NotifyRuleInputs : CreateAlertRule(rule)
  \/ EvalStart
  \/ \E rule \in NotifyRuleInputs, md \in MetricData : EvalRule(rule, md)
  \/ EvalUpdateGet
  \/ EvalUpdateSet
  \/ EvalSleep
  \/ \E ok \in BOOLEAN : ProcessNotification(ok)

\* The notification pipeline up to the shutdown of the service.
NextNotifier ==
  \/ \E id \in RuleIds : CreateAlertRule(Rule(id, "warning", "gt", TRUE, <<"email", "webhook">>))
  \/ EvalStart
  \/ \E rule \in NotifyRuleInputs : EvalRule(rule, [ kind |-> "metric", value |-> MaxValue ])
  \/ EvalUpdateGet
  \/ EvalUpdateSet
  \/ EvalSleep
  \/ NotifierPop
  \/ \E ok \in BOOLEAN : NotifierFinish(ok)
  \/ StopService

MetricsInit ==
  /\ metrics = << >>
  /\ timeseries = EmptyMap
  /\ recording = [ p \in 1..MaxProducers |-> None ]
  /\ clock = 0
  /\ ts_query = None

Init == MonInit /\ DockerInit /\ MachinesInit /\ MetricsInit /\ PluginInit

SpecAlerts == Init /\ [][NextAlerts]_vars

SpecNotify == Init /\ [][NextNotify]_vars

\* The notifier is a task of its own (start() creates it): it is scheduled
\* whenever a notification is waiting.
LiveNotify == SpecNotify /\ WF_vars(\E ok \in BOOLEAN : ProcessNotification(ok))

SpecNotifier == Init /\ [][NextNotifier]_vars

SpecContainers == Init /\ [][NextContainers]_vars

SpecCompose == Init /\ [][NextCompose]_vars

\* deploy_compose is a coroutine of the event loop: a call in progress takes
\* its next step.
LiveCompose ==
  SpecCompose /\ WF_vars(DeployWhile) /\ WF_vars(\E ok \in BOOLEAN : DeployVisit(ok))
              /\ WF_vars(DeployStore)

SpecUpdate == Init /\ [][NextUpdate]_vars

SpecMonitorUpdate == Init /\ [][NextMonitorUpdate]_vars

SpecMonitor == Init /\ [][NextMonitor]_vars

SpecMetrics == Init /\ [][NextMetrics]_vars

SpecTimeseries == Init /\ [][NextTimeseries]_vars

\* get_timeseries is a coroutine of the event loop: a call in progress takes
\* its next step.
LiveQuery == Init /\ [][NextQuery]_vars /\ WF_vars(GetTimeseriesPass)

SpecPlugins == Init /\ [][NextPlugins]_vars

SpecSessions == Init /\ [][NextSessions]_vars

SpecMachineApi == Init /\ [][NextMachineApi]_vars

\* ================================================================ claims

\* C1: in every reachable state of the alert subsystem, for every rule id and
\* label set at most one stored alert is in state ACTIVE.
C1_AtMostOneActivePerRule ==
  \A a, b \in StoredAlertIds :
    ( /\ alerts[a].state = "active" /\ alerts[b].state = "active"
      /\ alerts[a].rule_id = alerts[b].rule_id
      /\ alerts[a].labels = alerts[b].labels ) => a = b

C3_FailedOnlyAfterAttemptCap ==
  \A n \in NotifIds :
    (notifications[n] # None /\ notifications[n].status = "failed")
      => attempts[n] >= 10

\* The containers deploy_compose created for deployment d, in creation order.
CreatedBy(d) == SelectSeq(creation_log, LAMBDA e : e.deployment = d)

\* C4: in a compose deploy that returned successfully, when the container of a
\* service s was created, the container of every service named in
\* s.depends_on had been created by the same deploy and had reached RUNNING.
C4_TopologicalStart ==
  \A d \in DOMAIN deployments :
    outcome[d] = "ok" =>
      LET log == CreatedBy(d)
      IN \A k \in 1..Len(log) :
           \A dep \in DependsOn(deployments[d].config, log[k].service) :
             \E j \in 1..(k - 1) :
               /\ log[j].service = dep
               /\ log[j].cid \in log[k].running

\* A deploy has returned successfully in which a service was listed before
\* one it depends on, so the creation order differs from the listing order.
C4_Witness ==
  \E d \in DOMAIN deployments :
    /\ outcome[d] = "ok"
    /\ \E k \in 1..Len(CreatedBy(d)) :
         \E dep \in DependsOn(deployments[d].config, CreatedBy(d)[k].service) :
           dep > CreatedBy(d)[k].service

\* C5: while deploy_compose is at work on a config whose depends_on graph has
\* a cycle, neither the network nor any container of that deploy exists: the
\* config was rejected before anything was created.
C5_CyclicConfigCreatesNothing ==
  (deploy # Idle /\ HasCycle(deploy.config)) =>
    (deploy.id \notin networks /\ deploy.containers = << >>)

\* C6: once deploy_compose has failed, none of the containers it created is
\* left, neither at the daemon nor as a Container record.
C6_FailedDeployLeavesNothing ==
  \A d \in DeploymentIds :
    outcome[d] = "failed" =>
      \A k \in 1..Len(CreatedBy(d)) :
        /\ CreatedBy(d)[k].cid \notin DOMAIN dockerd
        /\ CreatedBy(d)[k].cid \notin DOMAIN containers

\* C7: a stored deployment record belongs to a deploy that did not fail and in
\* which a container was created for every service of the config and reached
\* RUNNING.
C7_RecordOnlyWhenAllRunning ==
  \A d \in DOMAIN deployments :
    /\ outcome[d] # "failed"
    /\ \A s \in DOMAIN deployments[d].config :
         \E k \in 1..Len(CreatedBy(d)) :
           /\ CreatedBy(d)[k].service = s
           /\ CreatedBy(d)[k].cid \in reached_running

\* A record is stored for a config of MaxServices services.
C7_Witness ==
  \E d \in DOMAIN deployments : Len(deployments[d].config) = MaxServices

\* The remove_container steps of the latest teardown of deployment d.
RemovalsOf(d) == SelectSeq(teardown_log[d], LAMBDA e : e.op = "remove_container")

\* C8: the teardown of a deployment takes its containers in the reverse of the
\* order in which deploy_compose created them; the network is removed after
\* the last container was taken, and the record deleted right after the
\* network.
C8_ReverseTeardown ==
  \A d \in DeploymentIds :
    LET log == teardown_log[d]
        created == CreatedBy(d)
        n == Len(created)
    IN /\ \A i \in 1..Len(RemovalsOf(d)) :
            /\ i <= n
            /\ log[i] = RemovalsOf(d)[i]
            /\ log[i].target = created[n + 1 - i].cid
       /\ \A i \in 1..Len(log) :
            /\ log[i].op = "remove_network" => i = n + 1
            /\ log[i].op = "delete_record" =>
                 (i = n + 2 /\ log[i - 1].op = "remove_network")

\* A deployment of MaxServices services, created in an order other than the
\* listing order, has been torn down to the end, every step succeeding.
C8_Witness ==
  \E d \in DeploymentIds :
    /\ Len(teardown_log[d]) = MaxServices + 2
    /\ \A i \in 1..Len(teardown_log[d]) : teardown_log[d][i].ok
    /\ \E k \in 1..(Len(CreatedBy(d)) - 1) :
         CreatedBy(d)[k].service > CreatedBy(d)[k + 1].service

\* C9: no container has more than one stats-collection task running.
C9_AtMostOneStatsTask ==
  \A cid \in 1..made.containers :
    Cardinality({ t \in stats_live : t.cid = cid }) <= 1

\* C10: a container that was stopped or removed (it is not running at the
\* daemon, or gone from it) has no stats-collection task running.
C10_NoStatsTaskAfterStopOrRemove ==
  \A cid \in 1..made.containers :
    (cid \notin DOMAIN dockerd \/ ~dockerd[cid].running) =>
      \A t \in stats_live : t.cid # cid


\* ------------------------------------------------------- machines: claims

C12_SleepDelaysNoOtherMachine ==
  \A t \in MonitorTaskIds :
    monitor[t].pc = "sleep" =>
      \A i \in 2..Len(monitor[t].todo) :
        monitor[t].todo[i].id \notin DOMAIN monitoring_intervals

\* The status C13 gives for what the probe met.
StatusOfProbe(answer) ==
  IF answer = "parsed" THEN "active"
  ELSE IF answer = "connect_error" THEN "inactive"
  ELSE "error"

\* C13: a monitor iteration leaves the machine ACTIVE, with last_seen updated
\* and metrics attached, when the probe succeeded and parsed, INACTIVE on a
\* connection error, ERROR when the output could not be parsed.
C13_StatusFollowsProbe ==
  [][ \A t \in MonitorTaskIds :
        (monitor[t].pc = "probe" /\ monitor'[t].pc = "sleep") =>
          LET written == machines'[monitor[t].cur.id]
          IN /\ written.status = StatusOfProbe(monitor'[t].probe)
             /\ monitor'[t].probe = "parsed" =>
                  (written.system_info /\ written.last_seen = now) ]_vars

\* C14: a machine in MAINTENANCE is not probed, and no monitor iteration
\* changes its status.
C14_MaintenanceNotMonitored ==
  [][ \A t \in MonitorTaskIds :
        /\ (monitor[t].pc = "for" /\ monitor'[t].pc = "probe") =>
             ~ ( /\ machines[monitor'[t].cur.id] # None
                 /\ machines[monitor'[t].cur.id].status = "maintenance" )
        /\ (monitor[t].pc = "probe" /\ monitor'[t].pc = "sleep") =>
             ( ( /\ machines[monitor[t].cur.id] # None
                 /\ machines[monitor[t].cur.id].status = "maintenance" )
               => machines'[monitor[t].cur.id].status = "maintenance" ) ]_vars

\* C16: when delete_machine returns, the record is gone, no session is cached
\* for the machine and it has no monitoring entry.
C16_DeleteLeavesNothing ==
  [][ \A id \in MachineIds :
        (id \in deleting /\ id \notin deleting') =>
          /\ machines'[id] = None
          /\ id \notin DOMAIN ssh_clients'
          /\ id \notin DOMAIN monitoring_intervals' ]_vars

\* The latest connection attempt was made for the stored machine id, with the
\* address and key it has now.
ProbedAsStored(id) ==
  /\ last_probe # None
  /\ last_probe.id = id
  /\ last_probe.ip_address = machines[id].ip_address
  /\ last_probe.ssh_key = machines[id].ssh_key

\* C15: after create_machine, and after an update_machine that changes
\* ip_address or ssh_key, a connection probe with the machine's current address
\* and key has been made and the stored status is ACTIVE if it succeeded, ERROR
\* if it failed.
C15_ProbedOnCreateAndChange ==
  [][ \A id \in MachineIds :
        ( /\ machines'[id] # None
          /\ \/ machines[id] = None
             \/ machines'[id].ip_address # machines[id].ip_address
             \/ machines'[id].ssh_key # machines[id].ssh_key )
        => /\ ProbedAsStored(id)'
           /\ machines'[id].status = IF last_probe'.ok THEN "active" ELSE "error" ]_vars

\* C17: no two stored machines have the same name.
C17_UniqueNames ==
  \A a, b \in StoredMachineIds :
    machines[a].name = machines[b].name => a = b

\* ------------------------------------------------------- metrics: claims

\* The alerts in state ACTIVE that belong to the rule.
ActiveAlertsOf(rule) ==
  { a \in StoredAlertIds : alerts[a].rule_id = rule.id /\ alerts[a].state = "active" }

\* The value record_metric stored last satisfies the rule's condition.
LatestRecordedExceeds(rule) ==
  /\ metrics # << >>
  /\ ThresholdExceeded(rule.operator, metrics[Len(metrics)].value, rule.threshold)

\* C18: when the evaluator evaluates an enabled rule whose metric's latest
\* recorded value satisfies the operator against the threshold, and no ACTIVE
\* alert exists for the rule, an ACTIVE alert is created and exactly one
\* notification per sink of rule.notifications is enqueued.
C18_AlertOnLatestRecordedValue ==
  [][ \A rule \in ev_todo :
        ( /\ ev_pc = "rules"
          /\ rule \notin ev_todo'
          /\ rule.enabled
          /\ LatestRecordedExceeds(rule)
          /\ ActiveAlertsOf(rule) = {} )
        => /\ \E a \in AlertIds :
                /\ alerts[a] = None
                /\ alerts'[a] # None
                /\ alerts'[a].rule_id = rule.id
                /\ alerts'[a].state = "active"
                /\ Len(notif_queue') = Len(notif_queue) + Len(rule.notifications)
                /\ \A i \in 1..Len(rule.notifications) :
                     /\ notif_queue'[Len(notif_queue) + i].alert_id = a
                     /\ notif_queue'[Len(notif_queue) + i].type = rule.notifications[i] ]_vars

\* The samples recorded since now - duration.
SamplesSince(t) == { i \in 1..Len(metrics) : metrics[i].timestamp >= t }

\* C20: for a rule with duration > 0 an alert is created only if the condition
\* held on every sample recorded since now - duration (here: an alert created
\* from the latest recorded value).
C20_DurationRespected ==
  [][ \A a \in AlertIds :
        ( /\ alerts[a] = None
          /\ alerts'[a] # None
          /\ alert_rules[alerts'[a].rule_id] # None
          /\ alert_rules[alerts'[a].rule_id].duration > 0
          /\ metrics # << >>
          /\ alerts'[a].value = metrics[Len(metrics)].value )
        => \A i \in SamplesSince(clock - alert_rules[alerts'[a].rule_id].duration
                                            * TicksPerMinute) :
             ThresholdExceeded(alert_rules[alerts'[a].rule_id].operator, metrics[i].value,
                               alert_rules[alerts'[a].rule_id].threshold) ]_vars

\* C19: when the condition holds and an ACTIVE alert of the rule exists, the
\* evaluator's update changes only that alert's last_detected_at and value: no
\* alert is created, no notification is enqueued, the state and the other
\* fields of the alert stay as they are.
C19_UpdateTouchesOnlyDetection ==
  [][ (ev_pc = "set" /\ ev_pc' = "rules") =>
        /\ \A a \in AlertIds : a # ev_upd.id => alerts'[a] = alerts[a]
        /\ alerts'[ev_upd.id] =
             [ alerts[ev_upd.id] EXCEPT
                 !.last_detected_at = alerts'[ev_upd.id].last_detected_at,
                 !.value = alerts'[ev_upd.id].value ]
        /\ notif_queue' = notif_queue ]_vars

\* A step of the evaluator coroutine.
EvaluatorStep == << ev_pc, ev_todo, ev_upd >>' # << ev_pc, ev_todo, ev_upd >>

\* C21: the evaluator never changes the state of an alert; an ACTIVE alert
\* stays ACTIVE until an operator acknowledges or resolves it.
C21_EvaluatorKeepsState ==
  [][ EvaluatorStep =>
        \A a \in StoredAlertIds : alerts'[a].state = alerts[a].state ]_vars

\* C22: RESOLVED is terminal, and an alert becomes ACKNOWLEDGED only from
\* ACTIVE.
C22_ResolvedIsTerminal ==
  [][ \A a \in StoredAlertIds :
        /\ alerts[a].state = "resolved" => alerts'[a].state = "resolved"
        /\ (alerts'[a].state = "acknowledged" /\ alerts[a].state # "acknowledged")
             => alerts[a].state = "active" ]_vars

\* The ids of the notifications waiting in a queue.
QueuedIds(queue) == { queue[i].id : i \in 1..Len(queue) }

StatsTasksOf(live, cid) == { t.tid : t \in { u \in live : u.cid = cid } }

\* C24: start_container on a container that is RUNNING and stop_container on one
\* that is STOPPED succeed as no-ops: a step that finds the container running
\* and leaves it running, or finds it stopped and leaves it stopped, changes
\* neither the stored state of the record nor the stats tasks of the container.
C24_StartStopIdempotent ==
  [][ \A cid \in DOMAIN containers \cap DOMAIN containers' :
        ( /\ containers'[cid].state = containers[cid].state
          /\ containers[cid].state \in {"running", "stopped"} )
        => StatsTasksOf(stats_live', cid) = StatsTasksOf(stats_live, cid) ]_vars

\* C25: create_container with a name in use on the machine fails and leaves
\* no partial state: no record is stored, no stats task is spawned, and the
\* names of the stored containers stay unique.
C25_NameConflictCreatesNothing ==
  [][ /\ (made'.refused /\ ~made.refused) =>
           (containers' = containers /\ stats_live' = stats_live /\ dockerd' = dockerd)
      /\ \A a, b \in DOMAIN containers' :
           containers'[a].name = containers'[b].name => a = b ]_vars

\* A create was refused for its name while a container held it.
C25_Witness == made.refused /\ DOMAIN containers # {}

\* ------------------------------------------------ metrics: claims, part 2

\* How often the point occurs in the list.
Occurrences(seq, point) == Cardinality({ i \in 1..Len(seq) : seq[i] = point })

\* The points stored in the buckets of the resolution.
StoredPoints(res) ==
  UNION { { timeseries[key][i] : i \in 1..Len(timeseries[key]) } :
            key \in { k \in DOMAIN timeseries : k[1] = res } }

\* The query asks for the point.
Selected(q, point) ==
  /\ q.start_time <= point.timestamp
  /\ point.timestamp <= q.end_time
  /\ LabelsMatch(q.labels, point.labels)

\* C26: get_timeseries(name, from, to, resolution, labels) returns exactly the
\* points stored in that resolution's buckets whose timestamp lies in
\* [from, to] and whose labels equal the selector on every selected key, in
\* ascending timestamp order.
C26_TimeseriesExactRange ==
  [][ ts_query' # ts_query =>
        LET q == ts_query'
            bucket(point) == << q.interval, BucketStart(q.interval, point.timestamp) >>
        IN /\ \A i \in 1..Len(q.data_points) :
                /\ q.data_points[i] \in StoredPoints(q.interval)
                /\ Selected(q, q.data_points[i])
           /\ \A point \in StoredPoints(q.interval) :
                Selected(q, point) =>
                  Occurrences(q.data_points, point)
                    = Occurrences(timeseries[bucket(point)], point)
           /\ \A i, j \in 1..Len(q.data_points) :
                i < j => q.data_points[i].timestamp <= q.data_points[j].timestamp ]_vars

\* C27: in every resolution bucket the points of one label set are in
\* non-decreasing timestamp order.
C27_BucketsOrdered ==
  \A key \in DOMAIN timeseries :
    \A i, j \in 1..Len(timeseries[key]) :
      (i < j /\ timeseries[key][i].labels = timeseries[key][j].labels)
        => timeseries[key][i].timestamp <= timeseries[key][j].timestamp

\* ------------------------------------------------- plugin manager: claims

\* The plugins reached from the given ones along declared dependencies.
RECURSIVE DependenciesOf(_, _)
DependenciesOf(graph, names) ==
  LET next == names \cup UNION { graph[n] : n \in names }
  IN IF next = names THEN names ELSE DependenciesOf(graph, next)

\* The plugin is on a dependency cycle.
OnCycle(graph, name) == name \in DependenciesOf(graph, graph[name])

\* C28: a plugin's initialize() runs only after the initialize() of every
\* plugin it declares as a dependency has completed; a plugin on a dependency
\* cycle is never initialized, and with a cycle discover_plugins ends with a
\* PluginError.
C28_InitializeAfterDependencies ==
  [][ /\ \A n \in pm'.initialized_plugins \ pm.initialized_plugins :
           /\ pm.dependency_graph[n] \subseteq pm.initialized_plugins
           /\ ~OnCycle(pm.dependency_graph, n)
      /\ ( /\ pm.pc \in {"while", "for"}
           /\ pm'.pc = "idle"
           /\ \E n \in PluginNames : OnCycle(pm.dependency_graph, n) )
         => pm'.result = "error" ]_vars

\* A plugin with a dependency was initialized, and the call ended with the
\* error for the plugins left on a cycle.
C28_Witness ==
  /\ pm.result = "error"
  /\ \E n \in pm.initialized_plugins : pm.dependency_graph[n] # {}
  /\ \E n \in pm.discovered_plugins : OnCycle(pm.dependency_graph, n)

C30_BrokenSessionEvicted ==
  [][ \A t \in MonitorTaskIds :
        ( /\ monitor[t].pc = "probe"
          /\ monitor'[t].pc = "sleep"
          /\ monitor'[t].probe = "connect_error"
          /\ monitor[t].cur.id \in DOMAIN ssh_clients )
        => monitor[t].cur.id \notin DOMAIN ssh_clients' ]_vars

\* C31: under any interleaving of concurrent calls that need a session for the
\* same machine, the sessions opened for the machine and not closed are the one
\* in the cache: one while a session is cached, none otherwise.
C31_OneSessionPerMachine ==
  \A id \in MachineIds :
    ssh_open[id] = IF id \in DOMAIN ssh_clients THEN 1 ELSE 0

\* C32: an error raised while evaluating one alert rule degrades only that rule:
\* a tick of the evaluator ends with at most the failing rule, among the enabled
\* rules it listed, left without its evaluation.
C32_RuleErrorIsolated ==
  [][ (ev_pc = "rules" /\ ev_pc' = "sleep")
        => Cardinality({ rule \in ev_todo : rule.enabled }) <= 1 ]_vars

\* What the daemon and the store hold of deployment d is the same after the step.
DeploymentUntouched(d) ==
  /\ d \in DOMAIN deployments'
  /\ deployments'[d] = deployments[d]
  /\ \A i \in 1..Len(deployments[d].containers) :
       LET cid == deployments[d].containers[i].cid
       IN /\ cid \in DOMAIN containers => (cid \in DOMAIN containers'
                                            /\ containers'[cid] = containers[cid])
          /\ cid \in DOMAIN dockerd => (cid \in DOMAIN dockerd'
                                         /\ dockerd'[cid] = dockerd[cid])

\* C33: update_compose_deployment removes the old deployment only when the new
\* one is stored with a running container for every service of its config, and
\* no step of the deploy_compose it calls, a failing one included, changes the
\* record or the containers of the old deployment.
C33_UpdateDeploysThenTearsDown ==
  [][ /\ (deploy.pc = "teardown" /\ deploy' # deploy)
          => /\ deploy.id \in DOMAIN deployments
             /\ Len(deployments[deploy.id].containers) = Len(deploy.config)
             /\ \A i \in 1..Len(deployments[deploy.id].containers) :
                  LET cid == deployments[deploy.id].containers[i].cid
                  IN cid \in DOMAIN dockerd /\ dockerd[cid].running
      /\ (deploy.pc \in {"while", "for", "store"} /\ deploy' # deploy)
          => (deploy.replaces # 0 => DeploymentUntouched(deploy.replaces))
      /\ (deploy.pc = "idle" /\ made'.deployments > made.deployments)
          => \A d \in DOMAIN deployments : DeploymentUntouched(d) ]_vars

\* An update went through: the new deployment is stored with its containers and
\* the old one was torn down.
C33_Witness ==
  /\ deploy = Idle
  /\ 2 \in DOMAIN deployments
  /\ 1 \notin DOMAIN deployments
  /\ outcome[1] = "ok" /\ outcome[2] = "ok"
  /\ Len(deployments[2].containers) = 2
  /\ teardown_log[1] # << >>

\* C34: once delete_machine(m) has returned, the record of m does not come back
\* into the store and no session for m comes back into the cache.
C34_DeletedStaysDeleted ==
  [][ \A id \in 1..machines_made :
        (machines[id] = None /\ id \notin deleting)
          => /\ machines'[id] = None
             /\ id \notin DOMAIN ssh_clients => id \notin DOMAIN ssh_clients' ]_vars

\* C35: what a completed update_machine stored is not lost to the monitor: no
\* step of a monitor task changes the name, the address or the key of a stored
\* machine.
C35_UpdateSurvivesMonitor ==
  [][ \A id \in MachineIds :
        (monitor' # monitor /\ machines[id] # None /\ machines'[id] # None)
          => /\ machines'[id].name = machines[id].name
             /\ machines'[id].ip_address = machines[id].ip_address
             /\ machines'[id].ssh_key = machines[id].ssh_key ]_vars

\* C36: the stats task only updates a container's stats: a step that is no call
\* to the daemon (no create, start, stop or remove) leaves a stored state of
\* STOPPED as it is, and the record of a removed container does not come back.
C36_StatsTaskOnlyUpdatesStats ==
  [][ /\ dockerd' = dockerd
          => \A cid \in DOMAIN containers :
               containers[cid].state = "stopped"
                 => (cid \in DOMAIN containers' /\ containers'[cid].state = "stopped")
      /\ \A cid \in 1..made.containers :
           cid \notin DOMAIN containers => cid \notin DOMAIN containers' ]_vars

\* C37: deploy_compose terminates for every ComposeConfig: a call in progress
\* comes to its end, returning the deployment or raising.
C37_DeployTerminates == (deploy # Idle) ~> (deploy = Idle)

\* C38: get_timeseries terminates for every start_time <= end_time and every
\* value of interval: a call in its loop comes to return its result.
C38_GetTimeseriesTerminates ==
  (IF ts_query = None THEN FALSE ELSE ts_query.pc \in {"while", "lrange"})
    ~> (IF ts_query = None THEN FALSE ELSE ts_query.pc = "done")

\* C39: the service registry is consistent: a service that a step publishes is
\* from then on returned by PluginManager.get_service, and when
\* cleanup_plugins has returned no service is retrievable, through the manager
\* or through a plugin's get_service.
C39_RegistryConsistent ==
  [][ /\ \A name \in pm'.plugin_services \ pm.plugin_services : name \in pm'.services
      /\ (pm.pc = "gather" /\ pm'.pc = "idle")
           => (pm'.services = {} /\ pm'.plugin_services = {}) ]_vars

\* C40: every notification the worker took off the queue is accounted for: it is
\* in the worker's hands, or it is stored in the history as sent or as failed,
\* and one stored as failed waits on the retry queue.
C40_DequeuedIsAccountedFor ==
  \A i \in 1..Len(notif_made) :
    LET n == notif_made[i].id
    IN n \notin QueuedIds(notif_queue) =>
         \/ (notifier.cur # None /\ notifier.cur.id = n)
         \/ /\ notifications[n] # None
            /\ notifications[n].status \in {"sent", "failed"}
            /\ notifications[n].status = "failed" => n \in QueuedIds(retry_queue)

====
